---- MODULE Spec2Model ----
(***************************************************************************)
(* Request-scoped user dataloader of the Go API.                           *)
(*                                                                         *)
(*   pkg/utils/dataloader.go          Loaders, NewLoaders, LoadUser,       *)
(*                                    LoadUsers, GetLoadersFromContext     *)
(*   internal/middleware/dataloader.go DataLoaderMiddleware, userBatchFn   *)
(*                                                                         *)
(* loaders.UserLoader is a *dataloader.Loader of                           *)
(* github.com/graph-gophers/dataloader/v7, built by NewBatchedLoader with  *)
(* WithBatchCapacity.  Load, LoadMany, the batcher, its sleeper and the    *)
(* in-memory thunk cache below follow that package: Load checks and fills  *)
(* the cache under cacheLock, enqueues under batchLock, ends the batcher   *)
(* when count reaches the capacity; the sleeper ends it after the wait;    *)
(* the batch goroutine calls the batch function once and sends items[i]    *)
(* to the channel of request i.                                            *)
(*                                                                         *)
(* A user row is represented by its ID; NilUser is the nil *models.User.   *)
(***************************************************************************)
EXTENDS Integers, Sequences, FiniteSets, TLC

\* ------------------------------------------------------------------ bounds
MaxUserID == 3
MaxRequests == 2
\* WithBatchCapacity(100) in NewLoaders; the model runs the loader with a
\* small capacity so that full batches happen.
BatchCapacity == 2
\* the posts of the table postService.GetAll reads
MaxPosts == 3

\* the client IPs and the requests they send in one period of the limiter
MaxClients == 2
MaxEdgeReqs == 3
\* RateLimiter(redisClient, 100, time.Minute) on the engine and
\* RateLimiter(redisClient, 5, time.Minute) on /register and /login; the
\* model runs them with small limits so that both are reached.
GlobalLimit == 4
AuthLimit == 2

UserIDs == 1..MaxUserID
Clients == 1..MaxClients
Reqs == 1..MaxRequests
\* the Loaders instances: DataLoaderMiddleware builds one per request
LoaderIDs == 1..MaxRequests

\* ------------------------------------------------------------- constants
NilUser == 0
NoLoaders == 0
Background == 0
Nil == "nil"
ErrNoLoaders == "loaders not found in context"
ErrFetch == "GetUsersByIDs failed"
ErrCanceled == "context canceled"
ErrBatchLen == "batch function returned wrong number of results"

\* the IDs that have a row in the users table
StoredUsers == {k \in UserIDs : k < MaxUserID}

VARIABLES
    reqState,    \* request -> "new" | "serving" | "done"
    ctxLoaders,  \* request -> Loaders instance stored under LoaderKey, or NoLoaders
    created,     \* Loaders instances built so far by NewLoaders
    cache,       \* loader -> keys that have a thunk in the loader's cache
    slot,        \* loader -> (key -> Result delivered on the thunk's channel)
    batchers,    \* loader -> sequence of batchers, in creation order
    curBatcher,  \* loader -> index of l.curBatcher in batchers, 0 when nil
    count,       \* loader -> l.count
    calls,       \* call -> a LoadUser / LoadUsers invocation and its goroutines
    plan,        \* call -> the invocation it makes: [op, req, ids]
    storeFails,  \* the outcomes the users query can have: FALSE it answers, TRUE it fails
    cancelled,   \* the requests whose context is done (client gone, timeout)
    probe,       \* one application of the batch function: its inputs and results
    router,      \* the main function that built the gin engine
    method,      \* request -> its HTTP method
    dbRow,       \* cache key -> the row committed in the database, or NoRow
    redisVal,    \* cache key -> the response cached in Redis, or NoEntry
    ops,         \* the service operations in progress: [op, key, pc, seen, val]
    redisErrs,   \* the outcomes a command on Redis can have: TRUE it fails
    dbErrs,      \* the outcomes a call of the post repository can have: TRUE it fails
    limiterStore, \* limiter -> whether mredis.NewStore gave RateLimiter a store
    hits,        \* Redis key of the limiter store -> its counter in this period
    edge,        \* the requests passing the rate limiters: [ip, route, pc, trail]
    userRows,    \* the committed rows of the users table, in insertion order
    regs,        \* the Register and Login calls of userService in progress
    auth         \* the requests on the protected routes: [header, pc, status, keys]

vars == <<reqState, ctxLoaders, created, cache, slot, batchers, curBatcher, count, calls,
          plan, storeFails, cancelled, probe, router, method, dbRow, redisVal, ops,
          redisErrs, dbErrs, limiterStore, hits, edge, userRows, regs, auth>>

loaderVars == <<cache, slot, batchers, curBatcher, count>>
\* what the loader and the middleware only read
httpVars == <<router, method>>
svcVars == <<dbRow, redisVal, ops>>
limiterVars == <<redisErrs, limiterStore, hits, edge>>
\* the parts of the application beside the loader, the router and the caches
txVars == <<userRows, regs>>
appVars == <<limiterVars, dbErrs, txVars, auth>>
\* what the services' cache operations leave alone
loaderSide == <<reqState, ctxLoaders, created, cache, slot, batchers, curBatcher, count,
                calls, plan, storeFails, cancelled, probe, httpVars, appVars>>
envVars == <<plan, storeFails, cancelled, probe, httpVars, svcVars, appVars>>
\* what the calls of userService on the users table leave alone
txSide == <<reqState, ctxLoaders, created, loaderVars, calls, plan, storeFails,
            cancelled, probe, httpVars, svcVars, limiterVars, dbErrs, auth>>
\* what JWTAuth leaves alone
authSide == <<reqState, ctxLoaders, created, loaderVars, calls, plan, storeFails,
              cancelled, probe, httpVars, svcVars, limiterVars, dbErrs, txVars>>
\* what the rate limiters leave alone
loaderSideOfApp == <<reqState, ctxLoaders, created, loaderVars, calls, plan, storeFails,
                     cancelled, probe, httpVars, svcVars, dbErrs, txVars, auth>>
reqVars == <<reqState, ctxLoaders, created, envVars>>

Result(d, e) == [data |-> d, err |-> e]

IdleCall ==
    [state |-> "idle", op |-> "none", req |-> Background, ctx |-> NoLoaders,
     ids |-> <<>>, gpc |-> <<>>, memo |-> <<>>, data |-> <<>>, errs |-> <<>>,
     vals |-> <<>>, errors |-> <<>>]

\* ------------------------------------------------------- pure functions

\* userRepo.GetUsersByIDs: one query under ctx; with ctx done it returns the
\* error of the context, otherwise it fails as a whole or returns the map of
\* the rows found among the keys.
GetUsersByIDs(ctxDone, keys, fails) ==
    IF ctxDone
    THEN [userMap |-> {}, err |-> ErrCanceled]
    ELSE IF fails
    THEN [userMap |-> {}, err |-> ErrFetch]
    ELSE [userMap |-> {keys[i] : i \in DOMAIN keys} \cap StoredUsers, err |-> Nil]

\* a batch function that marks only the first key with the error of the query
userBatchFnFirstOnly(ctxDone, keys, fails) ==
    LET got == GetUsersByIDs(ctxDone, keys, fails)
    IN  [i \in DOMAIN keys |->
            IF got.err # Nil /\ i = 1 THEN Result(NilUser, got.err)
            ELSE IF keys[i] \in got.userMap THEN Result(keys[i], Nil)
            ELSE Result(NilUser, Nil)]

\* a batch function that drops the error of the query
userBatchFnDropsErr(ctxDone, keys, fails) ==
    LET got == GetUsersByIDs(ctxDone, keys, fails)
    IN  [i \in DOMAIN keys |->
            IF keys[i] \in got.userMap THEN Result(keys[i], Nil)
            ELSE Result(NilUser, Nil)]

\* a batch function that returns a result for the users found only
userBatchResultsFound(keys, got) ==
    LET F[n \in 0..Len(keys)] ==
            IF n = 0 THEN <<>>
            ELSE IF got.err # Nil THEN Append(F[n - 1], Result(NilUser, got.err))
            ELSE IF keys[n] \in got.userMap THEN Append(F[n - 1], Result(keys[n], Nil))
            ELSE F[n - 1]
    IN  F[Len(keys)]

\* userBatchFn after the query: results := make(..., len(keys)), the error
\* of the query for every key, else the user of the map or nil
userBatchResults(keys, got) ==
    [i \in DOMAIN keys |->
        IF got.err # Nil THEN Result(NilUser, got.err)
        ELSE IF keys[i] \in got.userMap THEN Result(keys[i], Nil)
        ELSE Result(NilUser, Nil)]

\* a batch function that runs the query under context.Background()
userBatchFnNoCtx(ctxDone, keys, fails) ==
    userBatchResults(keys, GetUsersByIDs(FALSE, keys, fails))

\* a batch function that reports every failed query as the same error
userBatchFnMasksErr(ctxDone, keys, fails) ==
    LET got == GetUsersByIDs(ctxDone, keys, fails)
    IN  userBatchResults(keys, [got EXCEPT !.err = IF @ # Nil THEN ErrFetch ELSE @])

userBatchFn(ctxDone, keys, fails) ==
    userBatchResults(keys, GetUsersByIDs(ctxDone, keys, fails))

\* batcher.batch: what is sent on the channel of request i
BatchItems(ctxDone, keys, fails) ==
    LET items == userBatchFn(ctxDone, keys, fails)
    IN  IF Len(items) # Len(keys)
        THEN [i \in DOMAIN keys |-> Result(NilUser, ErrBatchLen)]
        ELSE items

\* a lookup that falls back to the Loaders built last when the context has none
GetLoadersOrLast(r) ==
    IF r = Background THEN created ELSE ctxLoaders[r]

GetLoadersFromContext(r) ==
    IF r = Background THEN NoLoaders ELSE ctxLoaders[r]

\* a middleware that hands the Loaders of the request before to the next one
NewLoadersShared == IF created = 0 THEN created + 1 ELSE created

NewLoaders == created + 1

\* a batcher and its sleeper; ctx is the context of the Load that started it
NewBatcher(ctx) ==
    [input |-> <<>>, finished |-> FALSE, sleeper |-> "sleeping", outcome |-> "pending",
     ctx |-> ctx, keys |-> <<>>]

\* a batcher whose input hands over the newest request first
SendFront(input, k) == <<k>> \o input

\* l.curBatcher.input <- req: the input channel is read in the order of the sends
Send(input, k) == Append(input, k)

\* a cache that knows a key only once its result has arrived
CacheGetResolved(l, k) == k \in DOMAIN slot[l]

\* a loader built with NoCache: no Load finds a cached thunk
CacheGetNever(l, k) == FALSE

\* a cache that answers every Get with a thunk
CacheGetAlways(l, k) == TRUE

\* cache.Get under cacheLock in Load
CacheGet(l, k) == k \in cache[l]

\* a Load that does not put its thunk in the cache
CacheSetNothing(l, k) == cache[l]

\* cache.Set under cacheLock in Load
CacheSet(l, k) == cache[l] \cup {k}

\* a loader built with WithClearCacheOnBatch
ClearCacheOnBatchSet == TRUE

\* NewBatchedLoader is given WithBatchCapacity only: the loader keeps its
\* cache when a batch ends (clearCacheOnBatch is false).
ClearCacheOnBatch == FALSE

\* Loader.reset, the cache after it
ResetCache(l) == IF ClearCacheOnBatch THEN {} ELSE cache[l]

\* a capacity test that lets one more key in
BatchFullLate(n) == BatchCapacity > 0 /\ n = BatchCapacity + 1

\* Load: if l.count == l.batchCap, after l.count++
BatchFull(n) == BatchCapacity > 0 /\ n = BatchCapacity

\* ------------------------------------------------------------------ Init
Invocation(op, r, ids) == [op |-> op, req |-> r, ids |-> ids]

\* the requests of a plan; Background is no request
PlanReqs(p) == {p[c].req : c \in DOMAIN p} \ {Background}

\* no application of the batch function outside a loader
NoProbe == [keys |-> <<>>, got |-> [userMap |-> {}, err |-> Nil], applied |-> FALSE,
            results |-> <<>>]

InitLoaders(p, f) ==
    /\ plan = p
    /\ storeFails = f
    /\ reqState = [r \in PlanReqs(p) |-> "new"]
    /\ ctxLoaders = [r \in PlanReqs(p) |-> NoLoaders]
    /\ created = 0
    /\ cache = [l \in LoaderIDs |-> {}]
    /\ slot = [l \in LoaderIDs |-> [k \in {} |-> Result(NilUser, Nil)]]
    /\ batchers = [l \in LoaderIDs |-> <<>>]
    /\ curBatcher = [l \in LoaderIDs |-> 0]
    /\ count = [l \in LoaderIDs |-> 0]
    /\ calls = [c \in DOMAIN p |-> IdleCall]

\* the cache keys of the services: fmt.Sprintf("user:%d", id), "post:%d"
CacheKeys == {"user:1", "post:1"}
NoRow == "no row"
NoEntry == "redis: nil"
\* the contents a row and its cached response can have
RowValues == {"old", "new"}

\* no service operation is running: the rows exist, Redis is empty
InitServices ==
    /\ dbRow = [k \in CacheKeys |-> "old"]
    /\ redisVal = [k \in CacheKeys |-> NoEntry]
    /\ ops = <<>>

\* no request is at the rate limiters: both have their store, no counter
\* exists in Redis
InitLimiter ==
    /\ redisErrs = {FALSE}
    /\ limiterStore = [w \in {"global", "auth"} |-> TRUE]
    /\ hits = [ip \in Clients |-> 0]
    /\ edge = <<>>

\* nothing runs beside the loader, the router and the caches
InitApp ==
    /\ InitLimiter
    /\ dbErrs = {FALSE}
    /\ userRows = <<>>
    /\ regs = <<>>
    /\ auth = <<>>

\* every request is a GET that reached DataLoaderMiddleware
InitWith(p, f) ==
    /\ InitApp
    /\ cancelled = {}
    /\ probe = NoProbe
    /\ router = "unnamed/part_001"
    /\ method = [r \in PlanReqs(p) |-> "GET"]
    /\ InitServices
    /\ InitLoaders(p, f)

\* --------------------------------------------------------------- requests

\* DataLoaderMiddleware: a new Loaders per request, stored in the request's
\* context before c.Next().
DataLoaderMiddleware(r) ==
    /\ reqState[r] = "new"
    /\ created < MaxRequests
    /\ created' = created + 1
    /\ ctxLoaders' = [ctxLoaders EXCEPT ![r] = NewLoaders]
    /\ reqState' = [reqState EXCEPT ![r] = "serving"]
    /\ UNCHANGED <<envVars, loaderVars, calls>>

\* c.Next() returns: every LoadUser / LoadUsers made while serving r returned.
RequestDone(r) ==
    /\ reqState[r] = "serving"
    /\ \A c \in DOMAIN calls : plan[c].req = r => calls[c].state = "returned"
    /\ reqState' = [reqState EXCEPT ![r] = "done"]
    /\ UNCHANGED <<ctxLoaders, created, envVars, loaderVars, calls>>

\* the contexts a service can be called with: the context of a request being
\* served, or one that never passed the middleware
Contexts == {Background} \cup {r \in DOMAIN reqState : reqState[r] = "serving"}

\* ------------------------------------------------- LoadUser and LoadUsers

\* LoadUser up to loaders.UserLoader.Load
LoadUser(c, r, userID) ==
    /\ calls[c].state = "idle"
    /\ plan[c] = [op |-> "LoadUser", req |-> r, ids |-> <<userID>>]
    /\ r \in Contexts
    /\ LET loaders == GetLoadersFromContext(r)
       IN  calls' = [calls EXCEPT ![c] =
              IF loaders = NoLoaders
              THEN [IdleCall EXCEPT !.state = "returned", !.op = "LoadUser", !.req = r,
                                    !.ids = <<userID>>,
                                    !.vals = <<NilUser>>, !.errors = <<ErrNoLoaders>>]
              ELSE [IdleCall EXCEPT !.state = "running", !.op = "LoadUser", !.req = r,
                                    !.ctx = loaders, !.ids = <<userID>>,
                                    !.gpc = <<"load">>, !.memo = <<"none">>,
                                    !.data = <<NilUser>>, !.errs = <<Nil>>]]
    /\ UNCHANGED <<reqVars, loaderVars>>

\* LoadUsers up to loaders.UserLoader.LoadMany, which starts one goroutine
\* per index (resolve)
LoadUsers(c, r, userIDs) ==
    /\ calls[c].state = "idle"
    /\ plan[c] = [op |-> "LoadUsers", req |-> r, ids |-> userIDs]
    /\ r \in Contexts
    /\ LET loaders == GetLoadersFromContext(r)
           n == Len(userIDs)
       IN  calls' = [calls EXCEPT ![c] =
              IF loaders = NoLoaders
              THEN [IdleCall EXCEPT !.state = "returned", !.op = "LoadUsers", !.req = r,
                                    !.ids = userIDs,
                                    !.vals = <<>>, !.errors = <<ErrNoLoaders>>]
              ELSE [IdleCall EXCEPT !.state = "running", !.op = "LoadUsers", !.req = r,
                                    !.ctx = loaders, !.ids = userIDs,
                                    !.gpc = [i \in 1..n |-> "load"],
                                    !.memo = [i \in 1..n |-> "none"],
                                    !.data = [i \in 1..n |-> NilUser],
                                    !.errs = [i \in 1..n |-> Nil]]]
    /\ UNCHANGED <<reqVars, loaderVars>>

\* Loader.Load, first critical section (cacheLock): return the cached thunk,
\* or build a thunk and put it in the cache.
LoadCache(c, i) ==
    /\ calls[c].state = "running"
    /\ i \in DOMAIN calls[c].gpc
    /\ calls[c].gpc[i] = "load"
    /\ LET l == calls[c].ctx
           k == calls[c].ids[i]
       IN  IF CacheGet(l, k)
           THEN /\ calls' = [calls EXCEPT ![c].gpc[i] = "wait",
                                          ![c].memo[i] = IF k \in DOMAIN slot[l]
                                                         THEN "resolved" ELSE "pending"]
                /\ UNCHANGED cache
           ELSE /\ cache' = [cache EXCEPT ![l] = CacheSet(l, k)]
                /\ calls' = [calls EXCEPT ![c].gpc[i] = "enqueue", ![c].memo[i] = "miss"]
    /\ UNCHANGED <<reqVars, slot, batchers, curBatcher, count>>

\* Loader.Load, second critical section (batchLock): start a batcher and its
\* sleeper when there is none, send the request to its input, and when count
\* reaches the capacity end the batcher, stop the sleeper and reset.
LoadEnqueue(c, i) ==
    /\ calls[c].state = "running"
    /\ i \in DOMAIN calls[c].gpc
    /\ calls[c].gpc[i] = "enqueue"
    /\ LET l == calls[c].ctx
           k == calls[c].ids[i]
           bs == IF curBatcher[l] = 0 THEN Append(batchers[l], NewBatcher(calls[c].req)) ELSE batchers[l]
           b == IF curBatcher[l] = 0 THEN Len(bs) ELSE curBatcher[l]
           sent == [bs EXCEPT ![b].input = Send(@, k)]
           full == BatchFull(count[l] + 1)
       IN  /\ cache' = [cache EXCEPT ![l] = IF full THEN ResetCache(l) ELSE @]
           /\ batchers' = [batchers EXCEPT ![l] =
                 IF full
                 THEN [sent EXCEPT ![b].finished = TRUE, ![b].sleeper = "closed"]
                 ELSE sent]
           /\ curBatcher' = [curBatcher EXCEPT ![l] = IF full THEN 0 ELSE b]
           /\ count' = [count EXCEPT ![l] =
                 IF BatchCapacity > 0 THEN (IF full THEN 0 ELSE @ + 1) ELSE @]
    /\ calls' = [calls EXCEPT ![c].gpc[i] = "wait"]
    /\ UNCHANGED <<reqVars, slot>>

\* a sleeper that wakes without ending its batcher
SleeperIdle(l, b) ==
    /\ b \in DOMAIN batchers[l]
    /\ batchers[l][b].sleeper = "sleeping"
    /\ batchers' = [batchers EXCEPT ![l][b].sleeper = "fired"]
    /\ UNCHANGED <<reqVars, slot, calls, curBatcher, count, cache>>

\* Loader.sleeper after l.wait: end the batcher; reset the loader when the
\* batcher is still the current one.
Sleeper(l, b) ==
    /\ b \in DOMAIN batchers[l]
    /\ batchers[l][b].sleeper = "sleeping"
    /\ batchers' = [batchers EXCEPT ![l][b].finished = TRUE, ![l][b].sleeper = "fired"]
    /\ IF curBatcher[l] = b
       THEN /\ curBatcher' = [curBatcher EXCEPT ![l] = 0]
            /\ count' = [count EXCEPT ![l] = 0]
            /\ cache' = [cache EXCEPT ![l] = ResetCache(l)]
       ELSE UNCHANGED <<curBatcher, count, cache>>
    /\ UNCHANGED <<reqVars, slot, calls>>

\* batcher.batch once the input is closed: one call of the batch function
\* with the keys in the order read from the input, then items[i] to the
\* channel of request i.
Batch(l, b, fails) ==
    /\ b \in DOMAIN batchers[l]
    /\ batchers[l][b].finished
    /\ batchers[l][b].outcome = "pending"
    /\ LET keys == batchers[l][b].input
           ctxDone == batchers[l][b].ctx \in cancelled
           items == BatchItems(ctxDone, keys, fails)
       IN  /\ slot' = [slot EXCEPT ![l] =
                 [k \in DOMAIN @ \cup {keys[i] : i \in DOMAIN keys} |->
                     IF \E i \in DOMAIN keys : keys[i] = k
                     THEN items[CHOOSE i \in DOMAIN keys :
                                   keys[i] = k /\ \A j \in DOMAIN keys : keys[j] = k => j <= i]
                     ELSE @[k]]]
           /\ batchers' = [batchers EXCEPT
                 ![l][b].keys = keys,
                 ![l][b].outcome =
                    IF ctxDone THEN "canceled" ELSE IF fails THEN "error" ELSE "ok"]
    /\ UNCHANGED <<reqVars, cache, curBatcher, count, calls>>

\* the thunk: blocks until the Result is on the channel
Thunk(l, k) == slot[l][k]

\* LoadUser: return thunk()
LoadUserReturn(c) ==
    /\ calls[c].state = "running"
    /\ calls[c].op = "LoadUser"
    /\ calls[c].gpc[1] = "wait"
    /\ calls[c].ids[1] \in DOMAIN slot[calls[c].ctx]
    /\ LET res == Thunk(calls[c].ctx, calls[c].ids[1])
       IN  calls' = [calls EXCEPT ![c].gpc[1] = "done", ![c].state = "returned",
                                  ![c].data[1] = res.data, ![c].errs[1] = res.err,
                                  ![c].vals = <<res.data>>, ![c].errors = <<res.err>>]
    /\ UNCHANGED <<reqVars, loaderVars>>

\* LoadMany, goroutine resolve(i): result, err := thunk(); data[i], errors[i]
Resolve(c, i) ==
    /\ calls[c].state = "running"
    /\ calls[c].op = "LoadUsers"
    /\ i \in DOMAIN calls[c].gpc
    /\ calls[c].gpc[i] = "wait"
    /\ calls[c].ids[i] \in DOMAIN slot[calls[c].ctx]
    /\ LET res == Thunk(calls[c].ctx, calls[c].ids[i])
       IN  calls' = [calls EXCEPT ![c].gpc[i] = "done",
                                  ![c].data[i] = res.data, ![c].errs[i] = res.err]
    /\ UNCHANGED <<reqVars, loaderVars>>

\* a LoadMany that returns one value per distinct key
ManyDataDistinct(ids, data) ==
    LET first == {i \in DOMAIN ids : \A j \in DOMAIN ids : ids[j] = ids[i] => i <= j}
        F[n \in 0..Len(ids)] ==
            IF n = 0 THEN <<>>
            ELSE IF n \in first THEN Append(F[n - 1], data[n]) ELSE F[n - 1]
    IN  F[Len(ids)]

\* LoadMany: data, filled by the goroutines, one entry per index of keys
ManyData(ids, data) == data

\* LoadMany after wg.Wait(): errs is nil unless some error is non-nil
ManyErrors(errs) ==
    IF \E i \in DOMAIN errs : errs[i] # Nil THEN errs ELSE <<>>

\* LoadUsers: return thunk()
LoadUsersReturn(c) ==
    /\ calls[c].state = "running"
    /\ calls[c].op = "LoadUsers"
    /\ \A i \in DOMAIN calls[c].gpc : calls[c].gpc[i] = "done"
    /\ calls' = [calls EXCEPT ![c].state = "returned",
                              ![c].vals = ManyData(calls[c].ids, calls[c].data),
                              ![c].errors = ManyErrors(calls[c].errs)]
    /\ UNCHANGED <<reqVars, loaderVars>>

\* ---------------------------------------------------------- specification

Next ==
    \/ \E r \in DOMAIN reqState : DataLoaderMiddleware(r)
    \/ \E r \in DOMAIN reqState : RequestDone(r)
    \/ \E c \in DOMAIN calls : \E i \in DOMAIN plan[c].ids :
          LoadUser(c, plan[c].req, plan[c].ids[i])
    \/ \E c \in DOMAIN calls : LoadUsers(c, plan[c].req, plan[c].ids)
    \/ \E c \in DOMAIN calls : \E i \in DOMAIN calls[c].gpc : LoadCache(c, i)
    \/ \E c \in DOMAIN calls : \E i \in DOMAIN calls[c].gpc : LoadEnqueue(c, i)
    \/ \E l \in LoaderIDs : \E b \in DOMAIN batchers[l] : Sleeper(l, b)
    \/ \E l \in LoaderIDs : \E b \in DOMAIN batchers[l] : \E fails \in storeFails :
          Batch(l, b, fails)
    \/ \E c \in DOMAIN calls : LoadUserReturn(c)
    \/ \E c \in DOMAIN calls : \E i \in DOMAIN calls[c].gpc : Resolve(c, i)
    \/ \E c \in DOMAIN calls : LoadUsersReturn(c)

LU(r, k) == Invocation("LoadUser", r, <<k>>)
LM(r, ids) == Invocation("LoadUsers", r, ids)

\* One request: a LoadUsers and two LoadUser, on the request's context or on
\* one without Loaders, over every pair of IDs.
IDLists == {<<>>, <<2, 1>>, <<1, 1>>}

Plans ==
    {<<LM(r, ids), LU(1, k1), LU(1, k2)>> :
        r \in {Background, 1}, ids \in IDLists,
        k1 \in UserIDs, k2 \in UserIDs}

Spec ==
    /\ \E p \in Plans : p[2].ids[1] <= p[3].ids[1] /\ InitWith(p, BOOLEAN)
    /\ [][Next]_vars

\* LoadUsers over a list with a repeated and a missing ID, beside a LoadUser.
PlansMany ==
    {<<LM(r, <<1, 2, 1, MaxUserID>>), LU(1, 1)>> : r \in {Background, 1}}

SpecMany ==
    /\ \E p \in PlansMany : InitWith(p, BOOLEAN)
    /\ [][Next]_vars

\* 2N+1 distinct IDs requested concurrently on one UserLoader of capacity N,
\* the store answering every query.
PlanCapacity ==
    <<LM(1, [i \in 1..(2 * BatchCapacity) |-> i]), LU(1, 2 * BatchCapacity + 1)>>

SpecCapacity ==
    /\ InitWith(PlanCapacity, {FALSE})
    /\ [][Next]_vars

\* Requests served concurrently, each asking for the same IDs.
PlansRequests ==
    {<<LU(1, k), LU(MaxRequests, k), LM(r, <<k, 1>>)>> : k \in UserIDs, r \in Reqs}

SpecRequests ==
    /\ \E p \in PlansRequests : InitWith(p, BOOLEAN)
    /\ [][Next]_vars

\* Calls made with a context that never passed the middleware, beside the
\* calls of a request.
PlansUnattached ==
    {<<LU(Background, k), LM(Background, ids), LU(1, k), LM(1, <<k, 2>>)>> :
        k \in UserIDs, ids \in IDLists}

SpecUnattached ==
    /\ \E p \in PlansUnattached : InitWith(p, BOOLEAN)
    /\ [][Next]_vars

\* --------------------------------------------------- postService.GetAll

\* a row of the posts table
Post(id, userID) == [id |-> id, userID |-> userID]

\* what postRepository.GetAll can return: up to MaxPosts posts written by
\* at most BatchCapacity distinct authors
PostTables ==
    UNION {{[i \in 1..n |-> Post(i, a[i])] : a \in [1..n -> 1..BatchCapacity]} :
              n \in 1..MaxPosts}

\* GetAll: userIDs[i] = post.UserID, one entry per post
AuthorIDs(posts) == [i \in DOMAIN posts |-> posts[i].userID]

\* GetAll up to utils.LoadUsers(ctx, userIDs)
GetAll(r, posts) == LM(r, AuthorIDs(posts))

\* One request runs GetAll over a posts table; another request loads a user.
PlansGetAll == {<<GetAll(1, posts), LU(MaxRequests, 1)>> : posts \in PostTables}

SpecGetAll ==
    /\ \E p \in PlansGetAll : InitWith(p, BOOLEAN)
    /\ [][Next]_vars

\* ------------------------------------------------------------ cancellation

\* the context of request r is done: the client went away or a deadline passed
Cancel(r) ==
    /\ reqState[r] \in {"new", "serving"}
    /\ r \notin cancelled
    /\ cancelled' = cancelled \cup {r}
    /\ UNCHANGED <<reqState, ctxLoaders, created, loaderVars, calls, plan, storeFails, probe,
                   httpVars, svcVars, appVars>>

NextCancel ==
    \/ Next
    \/ \E r \in DOMAIN reqState : Cancel(r)

\* One request, which may be cancelled at any moment, makes two LoadUser and
\* a LoadUsers.
PlansCancel ==
    {<<LU(1, k1), LU(1, k2), LM(1, <<k2, 1>>)>> : k1 \in UserIDs, k2 \in UserIDs}

SpecCancel ==
    /\ \E p \in PlansCancel : InitWith(p, BOOLEAN)
    /\ [][NextCancel]_vars

\* One request, which may be cancelled at any moment, makes a LoadUser and a
\* LoadUsers.
PlansLive ==
    {<<LU(1, k1), LM(1, <<k2, 1>>)>> : k1 \in UserIDs, k2 \in UserIDs}

\* Every goroutine that can take a step is scheduled, and a sleeper's timer
\* fires; a request need not be cancelled.
SpecLive ==
    /\ \E p \in PlansLive : InitWith(p, BOOLEAN)
    /\ [][NextCancel]_vars
    /\ WF_vars(Next)

\* ------------------------------------------------------------- the router

\* the two main functions: unnamed/part_001 registers DataLoaderMiddleware
\* and the post routes, cmd/api/main.go registers neither
Routers == {"unnamed/part_001", "cmd/api/main.go"}
Methods == {"GET", "OPTIONS"}

\* an engine without router.Use(middleware.DataLoaderMiddleware(userRepo))
UsesNoDataLoader(rt) == FALSE

\* router.Use(middleware.DataLoaderMiddleware(userRepo)), after CORS and
\* before the rate limiter, JWTAuth and the handlers
UsesDataLoaderMiddleware(rt) == rt = "unnamed/part_001"

\* CORS, the global middleware before DataLoaderMiddleware that can abort:
\* an OPTIONS request is answered 204 and nothing after CORS runs; any other
\* request goes on to the next global middleware.  RequestID, Logger and the
\* recovery middleware before it only call c.Next().
CORS(r) ==
    /\ reqState[r] = "routed"
    /\ reqState' = [reqState EXCEPT ![r] =
          IF method[r] = "OPTIONS" THEN "aborted"
          ELSE IF UsesDataLoaderMiddleware(router) THEN "new"
          ELSE "serving"]
    /\ UNCHANGED <<ctxLoaders, created, loaderVars, calls, envVars>>

NextRouter ==
    \/ \E r \in DOMAIN reqState : CORS(r)
    \/ Next

\* the handlers of unnamed/part_001 reach LoadUser and LoadUsers through
\* postService; those of cmd/api/main.go never do
PlansRouter(rt) ==
    IF rt = "unnamed/part_001"
    THEN {<<LU(1, k), LM(MaxRequests, <<k, 1>>)>> : k \in UserIDs}
    ELSE {<<>>}

InitRouter(rt, ms, p) ==
    /\ InitApp
    /\ router = rt
    /\ method = ms
    /\ cancelled = {}
    /\ probe = NoProbe
    /\ InitServices
    /\ plan = p
    /\ storeFails = BOOLEAN
    /\ reqState = [r \in Reqs |-> "routed"]
    /\ ctxLoaders = [r \in Reqs |-> NoLoaders]
    /\ created = 0
    /\ cache = [l \in LoaderIDs |-> {}]
    /\ slot = [l \in LoaderIDs |-> [k \in {} |-> Result(NilUser, Nil)]]
    /\ batchers = [l \in LoaderIDs |-> <<>>]
    /\ curBatcher = [l \in LoaderIDs |-> 0]
    /\ count = [l \in LoaderIDs |-> 0]
    /\ calls = [c \in DOMAIN p |-> IdleCall]

SpecRouter ==
    /\ \E rt \in Routers : \E ms \in [Reqs -> Methods] : \E p \in PlansRouter(rt) :
          InitRouter(rt, ms, p)
    /\ [][NextRouter]_vars

\* ------------------------------------- userService and postService caches

\* an operation of a service on the entity behind a cache key; val is what
\* an Update writes, owner whether a post's Delete is asked by its author
Op(op, key, val, owner) ==
    [op |-> op, key |-> key, pc |-> "start", seen |-> NoRow, val |-> val, owner |-> owner,
     result |-> NoRow, err |-> Nil]

ErrNotFound == "user not found"
ErrUnauthorized == "unauthorized to delete this post"

\* GetByID, 1. Try Cache: a hit returns the cached response
GetByIDCache(p) ==
    /\ ops[p].op = "GetByID" /\ ops[p].pc = "start"
    /\ ops' = [ops EXCEPT ![p] =
          IF redisVal[ops[p].key] # NoEntry
          THEN [@ EXCEPT !.pc = "returned", !.result = redisVal[ops[p].key]]
          ELSE [@ EXCEPT !.pc = "query"]]
    /\ UNCHANGED <<dbRow, redisVal, loaderSide>>

\* GetByID, 2. Cache Miss - Query DB: s.repo.GetByID reads the committed row
\* (postService also loads the author before it builds the response)
GetByIDQuery(p) ==
    /\ ops[p].op = "GetByID" /\ ops[p].pc = "query"
    /\ ops' = [ops EXCEPT ![p] =
          IF dbRow[ops[p].key] = NoRow
          THEN [@ EXCEPT !.pc = "returned", !.err = ErrNotFound]
          ELSE [@ EXCEPT !.pc = "set", !.seen = dbRow[ops[p].key]]]
    /\ UNCHANGED <<dbRow, redisVal, loaderSide>>

\* GetByID, 3. Set Cache: s.redis.Set(ctx, cacheKey, data, 10*time.Minute)
GetByIDSet(p) ==
    /\ ops[p].op = "GetByID" /\ ops[p].pc = "set"
    /\ redisVal' = [redisVal EXCEPT ![ops[p].key] = ops[p].seen]
    /\ ops' = [ops EXCEPT ![p].pc = "returned", ![p].result = ops[p].seen]
    /\ UNCHANGED <<dbRow, loaderSide>>

\* userService.Update inside WithTransaction: s.repo.GetByID(txCtx, id)
UpdateLookup(p) ==
    /\ ops[p].op = "Update" /\ ops[p].pc = "start"
    /\ ops' = [ops EXCEPT ![p] =
          IF dbRow[ops[p].key] = NoRow
          THEN [@ EXCEPT !.pc = "returned", !.err = ErrNotFound]
          ELSE [@ EXCEPT !.pc = "save", !.seen = dbRow[ops[p].key]]]
    /\ UNCHANGED <<dbRow, redisVal, loaderSide>>

\* Update: the fields are set and s.repo.Update(txCtx, user) writes the row
\* in the transaction; other connections still read the committed row
UpdateSave(p) ==
    /\ ops[p].op = "Update" /\ ops[p].pc = "save"
    /\ ops' = [ops EXCEPT ![p].pc = "invalidate", ![p].seen = ops[p].val]
    /\ UNCHANGED <<dbRow, redisVal, loaderSide>>

\* Update: s.redis.Del(ctx, cacheKey), still inside the transaction function
UpdateInvalidate(p) ==
    /\ ops[p].op = "Update" /\ ops[p].pc = "invalidate"
    /\ redisVal' = [redisVal EXCEPT ![ops[p].key] = NoEntry]
    /\ ops' = [ops EXCEPT ![p].pc = "commit"]
    /\ UNCHANGED <<dbRow, loaderSide>>

\* Update: the transaction function returns nil and db.Transaction commits
UpdateCommit(p) ==
    /\ ops[p].op = "Update" /\ ops[p].pc = "commit"
    /\ dbRow' = [dbRow EXCEPT ![ops[p].key] = ops[p].seen]
    /\ ops' = [ops EXCEPT ![p].pc = "returned", ![p].result = ops[p].seen]
    /\ UNCHANGED <<redisVal, loaderSide>>

\* postService.Delete: s.repo.GetByID and the ownership check
DeleteLookup(p) ==
    /\ ops[p].op = "Delete" /\ ops[p].key = "post:1" /\ ops[p].pc = "start"
    /\ ops' = [ops EXCEPT ![p] =
          IF dbRow[ops[p].key] = NoRow
          THEN [@ EXCEPT !.pc = "returned", !.err = ErrNotFound]
          ELSE IF ~ops[p].owner
          THEN [@ EXCEPT !.pc = "returned", !.err = ErrUnauthorized]
          ELSE [@ EXCEPT !.pc = "delete"]]
    /\ UNCHANGED <<dbRow, redisVal, loaderSide>>

\* Delete: s.repo.Delete(ctx, id), which userService.Delete starts with
DeleteRow(p) ==
    /\ ops[p].op = "Delete"
    /\ \/ ops[p].key = "user:1" /\ ops[p].pc = "start"
       \/ ops[p].key = "post:1" /\ ops[p].pc = "delete"
    /\ dbRow' = [dbRow EXCEPT ![ops[p].key] = NoRow]
    /\ ops' = [ops EXCEPT ![p].pc = "invalidate"]
    /\ UNCHANGED <<redisVal, loaderSide>>

\* Delete: return s.redis.Del(ctx, cacheKey).Err()
DeleteInvalidate(p) ==
    /\ ops[p].op = "Delete" /\ ops[p].pc = "invalidate"
    /\ redisVal' = [redisVal EXCEPT ![ops[p].key] = NoEntry]
    /\ ops' = [ops EXCEPT ![p].pc = "returned"]
    /\ UNCHANGED <<dbRow, loaderSide>>

NextServices ==
    \/ \E p \in DOMAIN ops : GetByIDCache(p)
    \/ \E p \in DOMAIN ops : GetByIDQuery(p)
    \/ \E p \in DOMAIN ops : GetByIDSet(p)
    \/ \E p \in DOMAIN ops : UpdateLookup(p)
    \/ \E p \in DOMAIN ops : UpdateSave(p)
    \/ \E p \in DOMAIN ops : UpdateInvalidate(p)
    \/ \E p \in DOMAIN ops : UpdateCommit(p)
    \/ \E p \in DOMAIN ops : DeleteLookup(p)
    \/ \E p \in DOMAIN ops : DeleteRow(p)
    \/ \E p \in DOMAIN ops : DeleteInvalidate(p)

\* the operations run concurrently on one entity: reads by GetByID beside one
\* writer, userService.Update or Delete, or postService.Delete
ServicePlans ==
    {<<Op("GetByID", "user:1", "old", TRUE), Op("GetByID", "user:1", "old", TRUE), w>> :
        w \in {Op("Update", "user:1", "new", TRUE), Op("Delete", "user:1", "old", TRUE)}}
    \cup
    {<<Op("GetByID", "post:1", "old", TRUE), Op("GetByID", "post:1", "old", TRUE),
       Op("Delete", "post:1", "old", owner)>> : owner \in BOOLEAN}

\* the rows exist, Redis is empty, the operations o are about to start
InitOps(o) ==
    /\ InitApp
    /\ ops = o
    /\ dbRow = [k \in CacheKeys |-> "old"]
    /\ redisVal = [k \in CacheKeys |-> NoEntry]
    /\ cancelled = {}
    /\ probe = NoProbe
    /\ router = "unnamed/part_001"
    /\ method = <<>>
    /\ InitLoaders(<<>>, {FALSE})

SpecServices ==
    /\ \E o \in ServicePlans : InitOps(o)
    /\ [][NextServices]_vars

\* ---------------------------------------------- the batch function alone

\* the key lists handed to the batch function: every list of up to
\* MaxUserID IDs, repeated IDs included
ProbeKeys == UNION {[1..n -> UserIDs] : n \in 0..MaxUserID}

\* what GetUsersByIDs can return: a map holding any of the users, or an error
Outcomes ==
    {[userMap |-> S, err |-> Nil] : S \in SUBSET UserIDs}
        \cup {[userMap |-> {}, err |-> e] : e \in {ErrFetch, ErrCanceled}}

\* userBatchFn from the return of GetUsersByIDs to its own return
ApplyBatchFn ==
    /\ ~probe.applied
    /\ probe' = [probe EXCEPT !.applied = TRUE,
                              !.results = userBatchResults(probe.keys, probe.got)]
    /\ UNCHANGED <<reqState, ctxLoaders, created, loaderVars, calls, plan, storeFails,
                   cancelled, httpVars, svcVars, appVars>>

NextBatchFn == ApplyBatchFn

\* the batch function is about to be applied to keys and got
InitBatchFn(keys, got) ==
    /\ InitApp
    /\ probe = [NoProbe EXCEPT !.keys = keys, !.got = got]
    /\ cancelled = {}
    /\ router = "unnamed/part_001"
    /\ method = <<>>
    /\ InitServices
    /\ InitLoaders(<<>>, {FALSE})

SpecBatchFn ==
    /\ \E keys \in ProbeKeys : \E got \in Outcomes : InitBatchFn(keys, got)
    /\ [][NextBatchFn]_vars

\* ------------------------------------------------------ the rate limiters

\* the two RateLimiter middlewares of the engine
Limiters == {"global", "auth"}
\* the routes behind authLimiter; "/health" stands for every other route
AuthRoutes == {"/register", "/login"}
Routes == AuthRoutes \cup {"/health"}

\* rate.Limit of the limiter instance
Limit(w) == IF w = "global" THEN GlobalLimit ELSE AuthLimit

\* the Redis key instance.Get(c, key) counts under.  Both middlewares call
\* mredis.NewStore(client) on the same client, which gives each store the
\* default prefix, and both pass c.ClientIP(): the key is "limiter:<ip>" for
\* either limiter, here the IP.
StoreKey(w, ip) == ip

\* context.Reached of the limiter: the count after this request's increment
\* is over the limit
Reached(n, limit) == n > limit

\* a limiter that rejects the request when it cannot read the counter
DecisionFailClosed(storeOK, err, n, limit) ==
    IF ~storeOK \/ err THEN "abort" ELSE IF Reached(n, limit) THEN "abort" ELSE "next"

\* what the middleware does with the request: without a store it is the
\* func(c) { c.Next() } of line 27; on an error of instance.Get it logs and
\* calls c.Next(); otherwise it aborts with 429 when the limit is reached
Decision(storeOK, err, n, limit) ==
    IF ~storeOK THEN "next"
    ELSE IF err THEN "next"
    ELSE IF Reached(n, limit) THEN "abort"
    ELSE "next"

\* the handler c.Next() enters after limiter w: authLimiter on the auth
\* routes, otherwise the route's handler
NextStage(route, w) ==
    IF w = "global" /\ route \in AuthRoutes THEN "auth" ELSE "handler"

\* a request of ip on route, about to enter the global limiter
EdgeReq(ip, route) ==
    [ip |-> ip, route |-> route, pc |-> "global", status |-> 0, trail |-> <<>>]

\* RateLimiter's handler for request q at limiter w.  instance.Get increments
\* the counter of the key and returns the new count; a failed command counts
\* nothing.
RateLimiter(q, w) ==
    /\ edge[q].pc = w
    /\ \E err \in redisErrs :
          LET key == StoreKey(w, edge[q].ip)
              n == hits[key] + 1
              counted == limiterStore[w] /\ ~err
              d == Decision(limiterStore[w], err, n, Limit(w))
              out == IF ~limiterStore[w] THEN "no store"
                     ELSE IF err THEN "error" ELSE "counted"
          IN  /\ hits' = IF counted THEN [hits EXCEPT ![key] = n] ELSE hits
              /\ edge' = [edge EXCEPT
                    ![q].pc = IF d = "next" THEN NextStage(edge[q].route, w) ELSE "aborted",
                    ![q].status = IF d = "next" THEN @ ELSE 429,
                    ![q].trail = Append(@, [at |-> w, out |-> out])]
    /\ UNCHANGED <<redisErrs, limiterStore, loaderSideOfApp>>

\* the route's handler runs and answers
Handler(q) ==
    /\ edge[q].pc = "handler"
    /\ edge' = [edge EXCEPT ![q].pc = "done", ![q].status = 200,
                            ![q].trail = Append(@, [at |-> "handler", out |-> "ran"])]
    /\ UNCHANGED <<redisErrs, limiterStore, hits, loaderSideOfApp>>

NextLimiter ==
    \/ \E q \in DOMAIN edge : \E w \in Limiters : RateLimiter(q, w)
    \/ \E q \in DOMAIN edge : Handler(q)

\* the requests of one period: any clients on any routes
EdgePlans == [1..MaxEdgeReqs -> {EdgeReq(ip, route) : ip \in Clients, route \in Routes}]

\* the engine is built: stores tells which limiters got a store, errs what
\* the Redis commands of the limiters can do; the requests e arrive
InitEdge(stores, errs, e) ==
    /\ limiterStore = stores
    /\ redisErrs = errs
    /\ hits = [ip \in Clients |-> 0]
    /\ edge = e
    /\ dbErrs = {FALSE}
    /\ userRows = <<>>
    /\ regs = <<>>
    /\ auth = <<>>
    /\ cancelled = {}
    /\ probe = NoProbe
    /\ router = "unnamed/part_001"
    /\ method = <<>>
    /\ InitServices
    /\ InitLoaders(<<>>, {FALSE})

\* Redis answers every command of the limiters
SpecLimiter ==
    /\ \E e \in EdgePlans : InitEdge([w \in Limiters |-> TRUE], {FALSE}, e)
    /\ [][NextLimiter]_vars

\* Redis can fail, at NewStore and at any instance.Get
SpecFailOpen ==
    /\ \E stores \in [Limiters -> BOOLEAN] : \E e \in EdgePlans :
          InitEdge(stores, BOOLEAN, e)
    /\ [][NextLimiter]_vars

\* ------------------------------------- postService after the author load

Panic == "runtime error: index out of range"

\* PostResponse of post i written by userID; author is NilUser when
\* post.User is nil (ToResponse leaves Author out)
PostResponse(i, userID, author) == [id |-> i, userID |-> userID, author |-> author]

\* Create, GetByID and GetByUserID after utils.LoadUser: an error is logged,
\* post.User = user whatever the error, and the response is returned with a
\* nil error
WithAuthor(i, userID, user, err) ==
    [panic |-> FALSE, responses |-> <<PostResponse(i, userID, user)>>, err |-> Nil]

\* GetAll after utils.LoadUsers: for every index of users it reads errs[i],
\* which panics when errs is shorter than users; userMap holds the users
\* loaded without error, and there is one response per post, in the order of
\* posts
GetAllResponses(userIDs, users, errs) ==
    IF \E i \in DOMAIN users : i \notin DOMAIN errs
    THEN [panic |-> TRUE, responses |-> <<>>, err |-> Panic]
    ELSE LET userMap == {userIDs[i] : i \in {j \in DOMAIN users :
                                                 errs[j] = Nil /\ users[j] # NilUser}}
         IN  [panic |-> FALSE,
              responses |-> [i \in DOMAIN userIDs |->
                  PostResponse(i, userIDs[i],
                               IF userIDs[i] \in userMap THEN userIDs[i] ELSE NilUser)],
              err |-> Nil]

\* what the post operation that made call c returns once the call returned
PostResult(c) ==
    IF calls[c].op = "LoadUsers"
    THEN GetAllResponses(calls[c].ids, calls[c].vals, calls[c].errors)
    ELSE WithAuthor(1, calls[c].ids[1], calls[c].vals[1], calls[c].errors[1])

\* ------------------------------------------- postService on a cached post

\* post 1 is written by user 1; Delete is asked by user 1 or by user 2
PostAuthor == 1
Callers == {1, 2}
NoAuthor == "no author"
Garbage == "not json"
ErrDB == "database error"
ErrRedis == "redis error"
ErrPostNotFound == "post not found"
\* a PostResponse as far as the caches matter: the post's row and the author
\* ToResponse copied from post.User
Response(post, author) == [post |-> post, author |-> author]
NoResponse == Response(NoRow, NoAuthor)
Responses == {Response(post, a) : post \in RowValues, a \in RowValues \cup {NoAuthor}}

\* json.Marshal(response): the string stored under post:<id>
Marshal(response) ==
    IF response.author = NoAuthor
    THEN "{post:" \o response.post \o "}"
    ELSE "{post:" \o response.post \o ",author:" \o response.author \o "}"

\* json.Unmarshal of a string Marshal produced
Unmarshal(val) == CHOOSE response \in Responses : Marshal(response) = val

\* a GetByID or a Delete of postService on post 1, asked by caller
PostOp(op, caller) ==
    [op |-> op, key |-> "post:1", pc |-> "start", caller |-> caller, late |-> FALSE,
     got |-> NoEntry, queried |-> FALSE, seen |-> NoRow, author |-> NoAuthor,
     loadErr |-> Nil, wrote |-> FALSE, stored |-> FALSE, deleted |-> FALSE,
     invalidated |-> FALSE,
     result |-> NoResponse, err |-> Nil]

\* the operations of userService that write the author's row
UserWriters == {p \in DOMAIN ops : ops[p].key = "user:1" /\ ops[p].op \in {"Update", "Delete"}}

\* the string redis.Get returned can be unmarshalled into a PostResponse
Decodable(val) == \E response \in Responses : Marshal(response) = val

\* a GetByID that takes no cached entry for a hit
CacheHitNever(err, val) == FALSE

\* GetByID, 1. Try Cache: err == nil and json.Unmarshal succeeded
CacheHit(err, val) == ~err /\ Decodable(val)

\* a postService that lets every caller delete
OwnsAlways(userID, caller) == TRUE

\* Delete, ownership: post.UserID == userID
Owns(userID, caller) == userID = caller

\* what utils.LoadUser gives GetByID for the author: the user's row as the
\* users query reads it, nil without error when there is no row, nil and the
\* error when the load fails
LoadAuthor(fails) ==
    IF fails THEN [user |-> NoAuthor, err |-> ErrFetch]
    ELSE IF dbRow["user:1"] = NoRow THEN [user |-> NoAuthor, err |-> Nil]
    ELSE [user |-> dbRow["user:1"], err |-> Nil]

\* postService.GetByID, 1. Try Cache: s.redis.Get(ctx, cacheKey).Result()
PostCacheGet(p) ==
    /\ ops[p].op = "PostGetByID" /\ ops[p].pc = "start"
    /\ \E err \in redisErrs :
          LET val == IF err THEN NoEntry ELSE redisVal[ops[p].key]
              late == \A w \in UserWriters : ops[w].pc = "returned"
          IN  ops' = [ops EXCEPT ![p] =
                 IF CacheHit(err, val)
                 THEN [@ EXCEPT !.pc = "returned", !.late = late, !.got = val,
                                !.result = Unmarshal(val)]
                 ELSE [@ EXCEPT !.pc = "query", !.late = late, !.got = val]]
    /\ UNCHANGED <<dbRow, redisVal, loaderSide>>

\* GetByID, 2. Cache Miss - Query DB: s.repo.GetByID(ctx, id)
PostQuery(p) ==
    /\ ops[p].op = "PostGetByID" /\ ops[p].pc = "query"
    /\ \E e \in dbErrs :
          ops' = [ops EXCEPT ![p] =
             IF e THEN [@ EXCEPT !.pc = "returned", !.queried = TRUE, !.err = ErrDB]
             ELSE IF dbRow[ops[p].key] = NoRow
             THEN [@ EXCEPT !.pc = "returned", !.queried = TRUE, !.err = ErrPostNotFound]
             ELSE [@ EXCEPT !.pc = "author", !.queried = TRUE, !.seen = dbRow[ops[p].key]]]
    /\ UNCHANGED <<dbRow, redisVal, loaderSide>>

\* GetByID: user, err := utils.LoadUser(ctx, post.UserID); post.User = user
PostLoadAuthor(p) ==
    /\ ops[p].op = "PostGetByID" /\ ops[p].pc = "author"
    /\ \E fails \in storeFails :
          LET loaded == LoadAuthor(fails)
          IN  ops' = [ops EXCEPT ![p].pc = "set", ![p].author = loaded.user,
                                 ![p].loadErr = loaded.err]
    /\ UNCHANGED <<dbRow, redisVal, loaderSide>>

\* GetByID, 3. Set Cache (TTL 10 mins), then return &response, nil; the
\* error of s.redis.Set is not looked at
PostCacheSet(p) ==
    /\ ops[p].op = "PostGetByID" /\ ops[p].pc = "set"
    /\ LET response == Response(ops[p].seen, ops[p].author)
       IN  \E err \in redisErrs :
              /\ redisVal' = IF err THEN redisVal
                             ELSE [redisVal EXCEPT ![ops[p].key] = Marshal(response)]
              /\ ops' = [ops EXCEPT ![p].pc = "returned", ![p].wrote = TRUE,
                                    ![p].stored = ~err, ![p].result = response]
    /\ UNCHANGED <<dbRow, loaderSide>>

\* postService.Delete: s.repo.GetByID and the ownership check
PostDeleteLookup(p) ==
    /\ ops[p].op = "PostDelete" /\ ops[p].pc = "start"
    /\ \E e \in dbErrs :
          ops' = [ops EXCEPT ![p] =
             IF e THEN [@ EXCEPT !.pc = "returned", !.err = ErrDB]
             ELSE IF dbRow[ops[p].key] = NoRow
             THEN [@ EXCEPT !.pc = "returned", !.err = ErrPostNotFound]
             ELSE IF ~Owns(PostAuthor, ops[p].caller)
             THEN [@ EXCEPT !.pc = "returned", !.err = ErrUnauthorized]
             ELSE [@ EXCEPT !.pc = "delete", !.seen = dbRow[ops[p].key]]]
    /\ UNCHANGED <<dbRow, redisVal, loaderSide>>

\* Delete: s.repo.Delete(ctx, id)
PostDeleteRow(p) ==
    /\ ops[p].op = "PostDelete" /\ ops[p].pc = "delete"
    /\ \E e \in dbErrs :
          /\ dbRow' = IF e THEN dbRow ELSE [dbRow EXCEPT ![ops[p].key] = NoRow]
          /\ ops' = [ops EXCEPT ![p] =
                IF e THEN [@ EXCEPT !.pc = "returned", !.err = ErrDB]
                ELSE [@ EXCEPT !.pc = "invalidate", !.deleted = TRUE]]
    /\ UNCHANGED <<redisVal, loaderSide>>

\* Delete: return s.redis.Del(ctx, "post:<id>").Err()
PostDeleteInvalidate(p) ==
    /\ ops[p].op = "PostDelete" /\ ops[p].pc = "invalidate"
    /\ \E err \in redisErrs :
          /\ redisVal' = IF err THEN redisVal ELSE [redisVal EXCEPT ![ops[p].key] = NoEntry]
          /\ ops' = [ops EXCEPT ![p] =
                IF err THEN [@ EXCEPT !.pc = "returned", !.err = ErrRedis]
                ELSE [@ EXCEPT !.pc = "returned", !.invalidated = TRUE]]
    /\ UNCHANGED <<dbRow, loaderSide>>

\* postService beside userService.Update and userService.Delete of the author
NextPosts ==
    \/ \E p \in DOMAIN ops : PostCacheGet(p)
    \/ \E p \in DOMAIN ops : PostQuery(p)
    \/ \E p \in DOMAIN ops : PostLoadAuthor(p)
    \/ \E p \in DOMAIN ops : PostCacheSet(p)
    \/ \E p \in DOMAIN ops : PostDeleteLookup(p)
    \/ \E p \in DOMAIN ops : PostDeleteRow(p)
    \/ \E p \in DOMAIN ops : PostDeleteInvalidate(p)
    \/ \E p \in DOMAIN ops : UpdateLookup(p)
    \/ \E p \in DOMAIN ops : UpdateSave(p)
    \/ \E p \in DOMAIN ops : UpdateInvalidate(p)
    \/ \E p \in DOMAIN ops : UpdateCommit(p)
    \/ \E p \in DOMAIN ops : DeleteRow(p)
    \/ \E p \in DOMAIN ops : DeleteInvalidate(p)

\* two reads of post 1 beside a third, or beside one writer: a Delete of the
\* post by its author or by someone else, or an Update or a Delete of the
\* author
PostPlans ==
    {<<PostOp("PostGetByID", 1), PostOp("PostGetByID", 1), w>> :
        w \in {PostOp("PostGetByID", 1)}
              \cup {PostOp("PostDelete", c) : c \in Callers}
              \cup {Op("Update", "user:1", "new", TRUE), Op("Delete", "user:1", "old", TRUE)}}

\* the post and its author exist; what is under post:1 in Redis is cached
InitPosts(o, cached, errs) ==
    /\ ops = o
    /\ dbRow = [k \in CacheKeys |-> "old"]
    /\ redisVal = [k \in CacheKeys |-> IF k = "post:1" THEN cached ELSE NoEntry]
    /\ redisErrs = errs
    /\ dbErrs = errs
    /\ limiterStore = [w \in Limiters |-> TRUE]
    /\ hits = [ip \in Clients |-> 0]
    /\ edge = <<>>
    /\ userRows = <<>>
    /\ regs = <<>>
    /\ auth = <<>>
    /\ cancelled = {}
    /\ probe = NoProbe
    /\ router = "unnamed/part_001"
    /\ method = <<>>
    /\ InitLoaders(<<>>, errs)

SpecPosts ==
    /\ \E o \in PostPlans : \E cached \in {NoEntry, Garbage} : InitPosts(o, cached, BOOLEAN)
    /\ [][NextPosts]_vars

\* ---------------------------------- userService.Register in a transaction

Emails == {"a@x.io", "b@x.io"}
\* r.db, the handle of the repository outside a transaction; the handle of
\* the transaction opened by call p is p
DefaultDB == 0
\* ctx.Value(TxKey) of a context that carries no transaction
NoTx == 0
ErrEmailTaken == "email already registered"
ErrDuplicate == "duplicate key value violates unique constraint"
ErrCredentials == "invalid credentials"

\* context.WithValue(ctx, TxKey, tx)
WithTx(ctx, tx) == [ctx EXCEPT !.tx = tx]

\* a repository that always uses r.db
GetDBDefault(ctx) == DefaultDB

\* GetDBFromContext(ctx, r.db): the transaction of the context if there is
\* one, otherwise the default handle
GetDBFromContext(ctx) == IF ctx.tx # NoTx THEN ctx.tx ELSE DefaultDB

\* a users row; by is the call that inserted it, DefaultDB for the rows that
\* were there before
UserRow(email, by) == [email |-> email, by |-> by]

\* a Register or Login call of userService with its request's email
UserCall(op, email) ==
    [op |-> op, email |-> email, pc |-> "start", ctx |-> [tx |-> NoTx], taken |-> FALSE,
     passed |-> FALSE, inserted |-> FALSE, pending |-> <<>>, uses |-> <<>>, err |-> Nil]

\* the emails a query through handle h reads: the committed rows and, through
\* a transaction, the rows the transaction inserted itself
Visible(h) ==
    {userRows[i].email : i \in DOMAIN userRows}
        \cup (IF h = DefaultDB THEN {}
              ELSE {regs[h].pending[i].email : i \in DOMAIN regs[h].pending})

\* a users table without the unique index on email
NoUniqueIndex(email) == FALSE

\* User.Email is gorm:"uniqueIndex": an insert of an email some row has fails
UniqueViolation(email) == \E i \in DOMAIN userRows : userRows[i].email = email

\* call p made repository call name under its current context
Used(p, name) ==
    Append(regs[p].uses, [call |-> name, handle |-> GetDBFromContext(regs[p].ctx),
                          tx |-> regs[p].ctx.tx])

\* Register: s.repo.WithTransaction -> RunInTransaction -> db.Transaction
\* begins a transaction and passes it to fn in txCtx
Begin(p) ==
    /\ regs[p].op = "Register" /\ regs[p].pc = "start"
    /\ regs' = [regs EXCEPT ![p].pc = "check", ![p].ctx = WithTx(@, p),
                            ![p].taken = UniqueViolation(regs[p].email)]
    /\ UNCHANGED <<userRows, txSide>>

\* Register: s.repo.GetByEmail(txCtx, req.Email); err == nil means the email
\* is taken, any error lets the registration go on
RegisterCheck(p) ==
    /\ regs[p].op = "Register" /\ regs[p].pc = "check"
    /\ \E e \in dbErrs :
          LET found == ~e /\ regs[p].email \in Visible(GetDBFromContext(regs[p].ctx))
          IN  regs' = [regs EXCEPT ![p].uses = Used(p, "GetByEmail"),
                                   ![p].pc = IF found THEN "rollback" ELSE "create",
                                   ![p].passed = ~found,
                                   ![p].err = IF found THEN ErrEmailTaken ELSE Nil]
    /\ UNCHANGED <<userRows, txSide>>

\* Register: s.repo.Create(txCtx, user).  The insert waits while another
\* open transaction holds an uncommitted row with the same email; it fails on
\* a committed one; through the default handle it is committed at once.
RegisterCreate(p) ==
    /\ regs[p].op = "Register" /\ regs[p].pc = "create"
    /\ \A q \in DOMAIN regs \ {p} :
          \A i \in DOMAIN regs[q].pending : regs[q].pending[i].email # regs[p].email
    /\ \E e \in dbErrs :
          LET h == GetDBFromContext(regs[p].ctx)
              row == UserRow(regs[p].email, p)
              err == IF e THEN ErrDB
                     ELSE IF UniqueViolation(regs[p].email) THEN ErrDuplicate ELSE Nil
          IN  /\ regs' = [regs EXCEPT
                    ![p].uses = Used(p, "Create"),
                    ![p].pc = IF err = Nil THEN "commit" ELSE "rollback",
                    ![p].err = err,
                    ![p].inserted = err = Nil,
                    ![p].pending = IF err = Nil /\ h # DefaultDB THEN Append(@, row) ELSE @]
              /\ userRows' = IF err = Nil /\ h = DefaultDB THEN Append(userRows, row)
                             ELSE userRows
    /\ UNCHANGED txSide

\* db.Transaction after fn returned nil: commit, whose error Register returns
Commit(p) ==
    /\ regs[p].pc = "commit"
    /\ \E e \in dbErrs :
          /\ userRows' = IF e THEN userRows ELSE userRows \o regs[p].pending
          /\ regs' = [regs EXCEPT ![p].pc = "returned", ![p].pending = <<>>,
                                  ![p].ctx = [tx |-> NoTx],
                                  ![p].err = IF e THEN ErrDB ELSE Nil]
    /\ UNCHANGED txSide

\* db.Transaction after fn returned an error: rollback, and the error is
\* returned
Rollback(p) ==
    /\ regs[p].pc = "rollback"
    /\ regs' = [regs EXCEPT ![p].pc = "returned", ![p].pending = <<>>,
                            ![p].ctx = [tx |-> NoTx]]
    /\ UNCHANGED <<userRows, txSide>>

\* Login: s.repo.GetByEmail(ctx, req.Email) outside any transaction
Login(p) ==
    /\ regs[p].op = "Login" /\ regs[p].pc = "start"
    /\ \E e \in dbErrs :
          LET found == ~e /\ regs[p].email \in Visible(GetDBFromContext(regs[p].ctx))
          IN  regs' = [regs EXCEPT ![p].uses = Used(p, "GetByEmail"),
                                   ![p].pc = "returned",
                                   ![p].err = IF found THEN Nil ELSE ErrCredentials]
    /\ UNCHANGED <<userRows, txSide>>

NextRegister ==
    \/ \E p \in DOMAIN regs : Begin(p)
    \/ \E p \in DOMAIN regs : RegisterCheck(p)
    \/ \E p \in DOMAIN regs : RegisterCreate(p)
    \/ \E p \in DOMAIN regs : Commit(p)
    \/ \E p \in DOMAIN regs : Rollback(p)
    \/ \E p \in DOMAIN regs : Login(p)

\* two Register calls beside a third Register or a Login
RegisterPlans ==
    {<<UserCall("Register", e1), UserCall("Register", e2), third>> :
        e1 \in Emails, e2 \in Emails,
        third \in {UserCall(op, e) : op \in {"Register", "Login"}, e \in Emails}}

\* the users table holds rows, the calls r are about to start
InitRegister(rows, r) ==
    /\ userRows = rows
    /\ regs = r
    /\ dbErrs = BOOLEAN
    /\ auth = <<>>
    /\ InitLimiter
    /\ cancelled = {}
    /\ probe = NoProbe
    /\ router = "unnamed/part_001"
    /\ method = <<>>
    /\ InitServices
    /\ InitLoaders(<<>>, {FALSE})

SpecRegister ==
    /\ \E rows \in {<<>>, <<UserRow("a@x.io", DefaultDB)>>} : \E r \in RegisterPlans :
          InitRegister(rows, r)
    /\ [][NextRegister]_vars

\* ----------------------------------------------------------------- JWTAuth

\* the claims JWTAuth copies to the context, in the order of its c.Set calls
ClaimKeys == <<"user_id", "email", "role">>

\* a token string: Malformed is one jwt.Parse cannot split and decode; the
\* others carry their alg header, whether the signature verifies under the
\* secret, whether exp is in the past, and the claims of the expected type
Token(alg, signed, expired, claims) ==
    [malformed |-> FALSE, alg |-> alg, signed |-> signed, expired |-> expired,
     claims |-> claims]
Malformed == [Token("none", FALSE, FALSE, {}) EXCEPT !.malformed = TRUE]
Tokens ==
    {Token(alg, signed, expired, claims) :
        alg \in {"HS256", "RS256", "none"}, signed \in BOOLEAN, expired \in BOOLEAN,
        claims \in SUBSET {ClaimKeys[i] : i \in DOMAIN ClaimKeys}}

\* the Authorization headers, as their space separated fields
Headers ==
    {<<>>, <<"Bearer">>} \cup {<<scheme, t>> : scheme \in {"Bearer", "Basic"}, t \in Tokens}
        \cup {<<"Bearer", Malformed>>} \cup {<<"Bearer", t, t>> : t \in Tokens}

\* strings.SplitN(authHeader, " ", 2): the first field and the rest of the
\* header, which is no token when it holds a space
SplitN(header) ==
    IF Len(header) <= 2 THEN header ELSE <<header[1], Malformed>>

\* jwt.Parse with the key function of JWTAuth: the token is decoded, the key
\* function refuses any method but HMAC, the signature is verified under the
\* secret and exp is validated
Parse(token) ==
    IF token.malformed THEN [err |-> TRUE, valid |-> FALSE]
    ELSE IF token.alg # "HS256" THEN [err |-> TRUE, valid |-> FALSE]
    ELSE IF ~token.signed THEN [err |-> TRUE, valid |-> FALSE]
    ELSE IF token.expired THEN [err |-> TRUE, valid |-> FALSE]
    ELSE [err |-> FALSE, valid |-> TRUE]

\* the c.Set calls of lines 93-95: claims[k].(T) panics at the first claim
\* that is missing or of another type, after the earlier keys were set
SetClaims(claims) ==
    LET n == Cardinality({i \in DOMAIN ClaimKeys :
                             \A j \in 1..i : ClaimKeys[j] \in claims})
    IN  [keys |-> {ClaimKeys[i] : i \in 1..n}, panic |-> n < Len(ClaimKeys)]

\* JWTAuth on a request with this header: the status it aborts with (0 when
\* it calls c.Next()), and the keys it set; a panic ends in the recovery
\* middleware, which aborts with 500
JWTAuthResult(header) ==
    IF header = <<>> THEN [status |-> 401, keys |-> {}]
    ELSE LET parts == SplitN(header)
         IN  IF ~(Len(parts) = 2 /\ parts[1] = "Bearer") THEN [status |-> 401, keys |-> {}]
             ELSE LET parsed == Parse(parts[2])
                      set == SetClaims(parts[2].claims)
                  IN  IF parsed.err THEN [status |-> 401, keys |-> {}]
                      ELSE IF ~parsed.valid THEN [status |-> 401, keys |-> {}]
                      ELSE IF set.panic THEN [status |-> 500, keys |-> set.keys]
                      ELSE [status |-> 0, keys |-> set.keys]

\* a request on a protected route, about to enter JWTAuth
AuthReq(header) == [header |-> header, pc |-> "jwt", status |-> 0, keys |-> {}]

JWTAuth(q) ==
    /\ auth[q].pc = "jwt"
    /\ LET res == JWTAuthResult(auth[q].header)
       IN  auth' = [auth EXCEPT ![q].pc = IF res.status = 0 THEN "handler" ELSE "aborted",
                                ![q].status = res.status,
                                ![q].keys = res.keys]
    /\ UNCHANGED authSide

\* the handler of the protected route runs
ProtectedHandler(q) ==
    /\ auth[q].pc = "handler"
    /\ auth' = [auth EXCEPT ![q].pc = "done", ![q].status = 200]
    /\ UNCHANGED authSide

NextAuth ==
    \/ \E q \in DOMAIN auth : JWTAuth(q)
    \/ \E q \in DOMAIN auth : ProtectedHandler(q)

\* a request with header h arrives on a protected route
InitAuth(h) ==
    /\ auth = <<AuthReq(h)>>
    /\ InitLimiter
    /\ dbErrs = {FALSE}
    /\ userRows = <<>>
    /\ regs = <<>>
    /\ cancelled = {}
    /\ probe = NoProbe
    /\ router = "unnamed/part_001"
    /\ method = <<>>
    /\ InitServices
    /\ InitLoaders(<<>>, {FALSE})

SpecAuth ==
    /\ \E h \in Headers : InitAuth(h)
    /\ [][NextAuth]_vars

\* ------------------------------------------------------------ properties

\* the batchers of loader l whose batch function has been invoked
Invoked(l) == {b \in DOMAIN batchers[l] : batchers[l][b].outcome # "pending"}

\* the positions of key k in the inputs of the batchers of loader l
Enqueued(l, k) ==
    UNION {{<<b, i>> : i \in {j \in DOMAIN batchers[l][b].input : batchers[l][b].input[j] = k}} :
              b \in DOMAIN batchers[l]}

\* the goroutines <<c, i>> of calls on loader l that asked for key k
Askers(l, k) ==
    UNION {{<<c, i>> : i \in {j \in DOMAIN calls[c].gpc : calls[c].ids[j] = k}} :
              c \in {d \in DOMAIN calls : calls[d].state # "idle" /\ calls[d].ctx = l}}

AllKeys == UNION {{plan[c].ids[i] : i \in DOMAIN plan[c].ids} : c \in DOMAIN plan}

Returned(c) == calls[c].state = "returned"
Attached(c) == calls[c].state # "idle" /\ calls[c].ctx # NoLoaders

\* C1: on one Loaders instance every user ID is passed to the batch function
\* at most once, whatever LoadUser and LoadUsers calls are made on it.
C1_FetchedAtMostOnce ==
    \A l \in LoaderIDs : \A k \in AllKeys :
        Cardinality({p \in Enqueued(l, k) : p[1] \in Invoked(l)}) <= 1

\* C1 witness: an ID asked for by a LoadUser and by a LoadUsers of the same
\* instance, both returned, was fetched once.
C1_Witness ==
    \E l \in LoaderIDs : \E k \in AllKeys :
        /\ Cardinality({p \in Enqueued(l, k) : p[1] \in Invoked(l)}) = 1
        /\ \E p \in Askers(l, k) : calls[p[1]].op = "LoadUser" /\ Returned(p[1])
        /\ \E p \in Askers(l, k) : calls[p[1]].op = "LoadUsers" /\ Returned(p[1])

\* C2: concurrent LoadUser calls with the same ID on one UserLoader enqueue
\* the ID once, no dispatch has it twice in its key list, and the callers
\* all return the same (user, error).
C2_ConcurrentSameKey ==
    \A l \in LoaderIDs : \A k \in AllKeys :
        /\ Cardinality(Enqueued(l, k))
             + Cardinality({p \in Askers(l, k) : calls[p[1]].gpc[p[2]] = "enqueue"}) <= 1
        /\ \A b \in DOMAIN batchers[l] :
             Cardinality({i \in DOMAIN batchers[l][b].input : batchers[l][b].input[i] = k}) <= 1
        /\ \A c1, c2 \in DOMAIN calls :
             (/\ Returned(c1) /\ Returned(c2)
              /\ calls[c1].op = "LoadUser" /\ calls[c2].op = "LoadUser"
              /\ calls[c1].ctx = l /\ calls[c2].ctx = l
              /\ calls[c1].ids = <<k>> /\ calls[c2].ids = <<k>>)
             => calls[c1].vals = calls[c2].vals /\ calls[c1].errors = calls[c2].errors

\* C2 witness: two LoadUser calls with the same ID, the second one arrived
\* while the first one's thunk was cached and unresolved; both returned.
C2_Witness ==
    \E c1, c2 \in DOMAIN calls :
        /\ c1 # c2 /\ Returned(c1) /\ Returned(c2)
        /\ calls[c1].op = "LoadUser" /\ calls[c2].op = "LoadUser"
        /\ calls[c1].ctx = calls[c2].ctx /\ calls[c1].ctx # NoLoaders
        /\ calls[c1].ids = calls[c2].ids
        /\ calls[c1].memo = <<"miss">> /\ calls[c2].memo = <<"pending">>

\* C3: a resolved key keeps its outcome and is never fetched again, and a
\* LoadUser returns the memoized outcome of its key.
C3_Step ==
    /\ \A l \in LoaderIDs : \A k \in DOMAIN slot[l] :
          /\ k \in DOMAIN slot'[l]
          /\ slot'[l][k] = slot[l][k]
          /\ Enqueued(l, k)' = Enqueued(l, k)
    /\ \A c \in DOMAIN calls :
          (~Returned(c) /\ Returned(c)' /\ calls'[c].op = "LoadUser" /\ calls'[c].ctx # NoLoaders)
          => /\ calls'[c].vals = <<slot'[calls'[c].ctx][calls'[c].ids[1]].data>>
             /\ calls'[c].errors = <<slot'[calls'[c].ctx][calls'[c].ids[1]].err>>

C3_MemoizedOutcome == [][C3_Step]_vars

\* C3 witness: a LoadUser issued after its key had resolved to an error
\* returned that error.
C3_Witness ==
    \E c \in DOMAIN calls :
        /\ Returned(c) /\ calls[c].op = "LoadUser"
        /\ calls[c].memo = <<"resolved">>
        /\ calls[c].errors = <<ErrFetch>>

\* the batcher of loader l that key k was sent to
BatcherOf(l, k) == CHOOSE b \in DOMAIN batchers[l] : \E p \in Enqueued(l, k) : p[1] = b

\* what the users table and the query of its batch give for key k of loader l
Fetched(l, k) ==
    IF batchers[l][BatcherOf(l, k)].outcome = "canceled" THEN Result(NilUser, ErrCanceled)
    ELSE IF batchers[l][BatcherOf(l, k)].outcome = "error" THEN Result(NilUser, ErrFetch)
    ELSE IF k \in StoredUsers THEN Result(k, Nil)
    ELSE Result(NilUser, Nil)

C5_ErrorsAligned ==
    \A c \in DOMAIN calls :
        (Returned(c) /\ calls[c].op = "LoadUsers")
        => /\ Len(calls[c].errors) = Len(calls[c].ids)
           /\ \A i \in DOMAIN calls[c].vals : i \in DOMAIN calls[c].errors

\* C7: when the query of a dispatch fails, every key of the dispatched batch
\* resolves to that error, none to a user or to absent.
C7_WholeBatchFailure ==
    \A l \in LoaderIDs : \A b \in DOMAIN batchers[l] :
        batchers[l][b].outcome = "error"
        => \A i \in DOMAIN batchers[l][b].input :
              /\ batchers[l][b].input[i] \in DOMAIN slot[l]
              /\ slot[l][batchers[l][b].input[i]] = Result(NilUser, ErrFetch)

\* C7 witness: a failed dispatch of two keys, one with a row and one without,
\* both returned to their callers.
C7_Witness ==
    \E l \in LoaderIDs : \E b \in DOMAIN batchers[l] :
        /\ batchers[l][b].outcome = "error"
        /\ Len(batchers[l][b].input) = 2
        /\ \E i, j \in DOMAIN batchers[l][b].input :
              /\ batchers[l][b].input[i] \in StoredUsers
              /\ batchers[l][b].input[j] \notin StoredUsers
        /\ \A i \in DOMAIN batchers[l][b].input :
              \E c \in DOMAIN calls :
                 /\ Returned(c) /\ calls[c].op = "LoadUser" /\ calls[c].ctx = l
                 /\ calls[c].ids = <<batchers[l][b].input[i]>>
                 /\ calls[c].errors = <<ErrFetch>>

\* the key lists the batch function of loader l has been invoked with
KeySet(l, b) == {batchers[l][b].input[i] : i \in DOMAIN batchers[l][b].input}

AllReturned == \A c \in DOMAIN calls : Returned(c)

\* the IDs asked for on loader l
Requested(l) == {k \in AllKeys : Askers(l, k) # {}}

\* C8: with capacity N and 2N+1 distinct IDs requested concurrently on one
\* UserLoader, no invocation of the batch function gets more than N keys,
\* the key lists of the invocations are pairwise disjoint, and once every
\* caller has returned there were at least 3 invocations whose key lists
\* together are exactly the requested IDs.
C8_BatchCapacity ==
    \A l \in LoaderIDs :
        /\ \A b \in Invoked(l) :
              /\ Len(batchers[l][b].input) <= BatchCapacity
              /\ Cardinality(KeySet(l, b)) = Len(batchers[l][b].input)
        /\ \A b1, b2 \in Invoked(l) : b1 # b2 => KeySet(l, b1) \cap KeySet(l, b2) = {}
        /\ (AllReturned /\ Cardinality(Requested(l)) >= 2 * BatchCapacity + 1)
           => /\ Cardinality(Invoked(l)) >= 3
              /\ UNION {KeySet(l, b) : b \in Invoked(l)} = Requested(l)

\* C8 witness: the 2N+1 IDs were requested on one loader, every caller has
\* returned, and the batch function was invoked exactly 3 times, twice with
\* N keys.
C8_Witness ==
    \E l \in LoaderIDs :
        /\ AllReturned
        /\ Cardinality(Requested(l)) = 2 * BatchCapacity + 1
        /\ Cardinality(Invoked(l)) = 3
        /\ Cardinality({b \in Invoked(l) : Len(batchers[l][b].input) = BatchCapacity}) = 2

\* C9: requests get distinct Loaders instances, a Loaders instance serves the
\* calls of one request only, and a LoadUser never gets a thunk cached while
\* serving another request.
C9_RequestIsolation ==
    /\ \A r1, r2 \in DOMAIN ctxLoaders :
          (r1 # r2 /\ ctxLoaders[r1] # NoLoaders) => ctxLoaders[r1] # ctxLoaders[r2]
    /\ \A c1, c2 \in DOMAIN calls :
          (Attached(c1) /\ Attached(c2) /\ calls[c1].ctx = calls[c2].ctx)
          => calls[c1].req = calls[c2].req
    /\ \A c \in DOMAIN calls : \A i \in DOMAIN calls[c].memo :
          (Attached(c) /\ calls[c].memo[i] \in {"pending", "resolved"})
          => \E d \in DOMAIN calls : \E j \in DOMAIN calls[d].memo :
                /\ calls[d].req = calls[c].req
                /\ calls[d].ids[j] = calls[c].ids[i]
                /\ calls[d].memo[j] = "miss"

\* C9 witness: two requests asked for the same ID, each fetched it itself,
\* and their LoadUser calls returned different outcomes.
C9_Witness ==
    \E c1, c2 \in DOMAIN calls :
        /\ Returned(c1) /\ Returned(c2)
        /\ calls[c1].op = "LoadUser" /\ calls[c2].op = "LoadUser"
        /\ calls[c1].req # calls[c2].req
        /\ calls[c1].ids = calls[c2].ids
        /\ calls[c1].memo = <<"miss">> /\ calls[c2].memo = <<"miss">>
        /\ calls[c1].errors = <<Nil>> /\ calls[c2].errors = <<ErrFetch>>

\* C10: LoadUser of an ID without a row returns (nil, nil) when the query of
\* its dispatch answered, LoadUser of an ID whose query failed returns a
\* non-nil error, and so the two results differ.
C10_AbsentIsNotError ==
    \A c \in DOMAIN calls :
        (Returned(c) /\ calls[c].op = "LoadUser" /\ calls[c].ctx # NoLoaders)
        => LET k == calls[c].ids[1]
               b == BatcherOf(calls[c].ctx, k)
           IN  /\ (batchers[calls[c].ctx][b].outcome = "ok" /\ k \notin StoredUsers)
                  => (calls[c].vals = <<NilUser>> /\ calls[c].errors = <<Nil>>)
               /\ (batchers[calls[c].ctx][b].outcome = "ok" /\ k \in StoredUsers)
                  => (calls[c].vals = <<k>> /\ calls[c].errors = <<Nil>>)
               /\ batchers[calls[c].ctx][b].outcome = "error"
                  => calls[c].errors # <<Nil>>

\* C10 witness: one LoadUser returned absent for an ID without a row, another
\* returned an error for a failed query.
C10_Witness ==
    \E c1, c2 \in DOMAIN calls :
        /\ Returned(c1) /\ Returned(c2)
        /\ calls[c1].op = "LoadUser" /\ calls[c2].op = "LoadUser"
        /\ calls[c1].ctx # NoLoaders /\ calls[c2].ctx # NoLoaders
        /\ calls[c1].ids[1] \notin StoredUsers
        /\ calls[c1].vals = <<NilUser>> /\ calls[c1].errors = <<Nil>>
        /\ calls[c2].errors = <<ErrFetch>>

\* Every invoked dispatch reports the error of its query for all of its keys
\* or for none: userBatchFn has no outcome with an error for one key only.
ErrorsAreBatchWide ==
    \A l \in LoaderIDs : \A b \in Invoked(l) :
        \A i, j \in DOMAIN batchers[l][b].input :
            (slot[l][batchers[l][b].input[i]].err = Nil)
                <=> (slot[l][batchers[l][b].input[j]].err = Nil)

\* the context of call c holds no Loaders
Unattached(c) ==
    plan[c].req = Background \/ ctxLoaders[plan[c].req] = NoLoaders

\* C11: a LoadUser or LoadUsers made with a context without Loaders returns
\* in the step that starts it, with the error "loaders not found in context"
\* and no user, and leaves every loader as it was: nothing is cached,
\* enqueued or dispatched for it.
C11_Step ==
    \A c \in DOMAIN calls :
        (Unattached(c) /\ calls[c].state = "idle" /\ calls'[c].state # "idle")
        => /\ calls'[c].state = "returned"
           /\ calls'[c].errors = <<ErrNoLoaders>>
           /\ \A i \in DOMAIN calls'[c].vals : calls'[c].vals[i] = NilUser
           /\ calls'[c].gpc = <<>>
           /\ UNCHANGED loaderVars

C11_ConfigurationError == [][C11_Step]_vars

\* C11 witness: a LoadUser and a LoadUsers without Loaders have returned the
\* configuration error while a request's loader had a batch pending, and no
\* batcher holds a key that only they asked for.
C11_Witness ==
    /\ \E c \in DOMAIN calls :
          /\ Returned(c) /\ plan[c].req = Background /\ calls[c].op = "LoadUser"
          /\ calls[c].vals = <<NilUser>> /\ calls[c].errors = <<ErrNoLoaders>>
    /\ \E c \in DOMAIN calls :
          /\ Returned(c) /\ plan[c].req = Background /\ calls[c].op = "LoadUsers"
          /\ calls[c].ids = <<2, 1>>
          /\ calls[c].vals = <<>> /\ calls[c].errors = <<ErrNoLoaders>>
    /\ \E l \in LoaderIDs : curBatcher[l] # 0 /\ KeySet(l, curBatcher[l]) = {MaxUserID}

\* C12: for every key list and every return of GetUsersByIDs, the batch
\* function returns one result per key, results[i] being the error of the
\* query when it failed, the user the map holds under keys[i] when it has
\* one, and (nil, nil) otherwise.
C12_BatchFnResults ==
    probe.applied
    => /\ Len(probe.results) = Len(probe.keys)
       /\ \A i \in DOMAIN probe.keys :
             /\ probe.got.err # Nil
                => probe.results[i] = Result(NilUser, probe.got.err)
             /\ (probe.got.err = Nil /\ probe.keys[i] \in probe.got.userMap)
                => probe.results[i] = Result(probe.keys[i], Nil)
             /\ (probe.got.err = Nil /\ probe.keys[i] \notin probe.got.userMap)
                => probe.results[i] = Result(NilUser, Nil)

\* C12 witness: keys [2, 1, 2] and a map that holds user 2 only gave
\* [user 2, absent, user 2].
C12_Witness ==
    /\ probe.applied
    /\ probe.keys = <<2, 1, 2>>
    /\ probe.got = [userMap |-> {2}, err |-> Nil]
    /\ probe.results = <<Result(2, Nil), Result(NilUser, Nil), Result(2, Nil)>>

\* the distinct IDs of a list
Distinct(ids) == {ids[i] : i \in DOMAIN ids}

C14_EventuallyReturns ==
    <>[](\A c \in DOMAIN calls : calls[c].state # "running")

\* C14 witness: a LoadUser whose key was alone in a batcher below the
\* capacity has returned after the sleeper ended the batcher.
C14_Witness ==
    \E c \in DOMAIN calls :
        /\ Returned(c) /\ calls[c].op = "LoadUser" /\ calls[c].memo = <<"miss">>
        /\ LET b == batchers[calls[c].ctx][BatcherOf(calls[c].ctx, calls[c].ids[1])]
           IN  Len(b.input) < BatchCapacity /\ b.sleeper = "fired" /\ b.outcome = "ok"

\* the goroutines <<c, i>> waiting for a result in a cancelled request
CancelledWaiting ==
    UNION {{<<c, i>> : i \in {j \in DOMAIN calls[c].gpc : calls[c].gpc[j] = "wait"}} :
              c \in {d \in DOMAIN calls : calls[d].state = "running" /\ calls[d].req \in cancelled}}

\* the batcher that resolved key ids[i] of call c was dispatched with its
\* context done
CancelledBeforeDispatch(c, i) ==
    /\ Enqueued(calls[c].ctx, calls[c].ids[i]) # {}
    /\ batchers[calls[c].ctx][BatcherOf(calls[c].ctx, calls[c].ids[i])].outcome = "canceled"

\* C15: when a request is cancelled before a pending batch is dispatched,
\* every key of the batch resolves to the error of the context, every caller
\* that waited on such a key gets that error and no user, and from some
\* moment on no goroutine of a cancelled request is waiting.
C15_Released ==
    /\ \A l \in LoaderIDs : \A b \in DOMAIN batchers[l] :
          batchers[l][b].outcome = "canceled"
          => \A i \in DOMAIN batchers[l][b].input :
                slot[l][batchers[l][b].input[i]] = Result(NilUser, ErrCanceled)
    /\ \A c \in DOMAIN calls : \A i \in DOMAIN calls[c].gpc :
          (Attached(c) /\ calls[c].gpc[i] = "done" /\ CancelledBeforeDispatch(c, i))
          => calls[c].data[i] = NilUser /\ calls[c].errs[i] = ErrCanceled
    /\ \A c \in DOMAIN calls :
          (Attached(c) /\ Returned(c) /\ calls[c].op = "LoadUser"
             /\ CancelledBeforeDispatch(c, 1))
          => calls[c].vals = <<NilUser>> /\ calls[c].errors = <<ErrCanceled>>

Precedes(seq, a, b) ==
    \E i, j \in DOMAIN seq : i < j /\ seq[i] = a /\ seq[j] = b

\* C17: a key enqueued on a batcher that already holds key a comes after a,
\* the keys already enqueued keep their order, and the batch function is
\* invoked with the keys in that order: if a was first enqueued before b and
\* both are in one dispatch, a precedes b in the key list of userBatchFn.
C17_Step ==
    \A l \in LoaderIDs : \A b \in DOMAIN batchers'[l] :
        LET old == IF b \in DOMAIN batchers[l] THEN batchers[l][b].input ELSE <<>>
            new == batchers'[l][b].input
        IN  /\ \A x, y \in Distinct(old) : Precedes(old, x, y) => Precedes(new, x, y)
            /\ \A x \in Distinct(old) : \A y \in Distinct(new) \ Distinct(old) :
                  Precedes(new, x, y)
            /\ batchers'[l][b].outcome # "pending"
               => /\ Distinct(batchers'[l][b].keys) = Distinct(new)
                  /\ \A x, y \in Distinct(new) :
                        Precedes(new, x, y) => Precedes(batchers'[l][b].keys, x, y)

C17_EnqueueOrder == [][C17_Step]_vars

\* C17 witness: LoadUsers over [2, 1] had ID 1 enqueued before ID 2, and the
\* batch function was invoked with [1, 2].
C17_Witness ==
    \E c \in DOMAIN calls :
        /\ Attached(c) /\ calls[c].op = "LoadUsers" /\ calls[c].ids = <<2, 1>>
        /\ calls[c].memo = <<"miss", "miss">>
        /\ \E b \in Invoked(calls[c].ctx) :
              /\ batchers[calls[c].ctx][b].input = <<1, 2>>
              /\ batchers[calls[c].ctx][b].keys = <<1, 2>>

C19_EveryRequest ==
    \A r \in DOMAIN reqState :
        reqState[r] \in {"serving", "done", "aborted"}
        => /\ ctxLoaders[r] # NoLoaders
           /\ \A r2 \in DOMAIN reqState : r2 # r => ctxLoaders[r2] # ctxLoaders[r]

\* C19 amended: on the router of unnamed/part_001 every request that CORS
\* lets through has exactly one Loaders registry, its own, attached before
\* its handler runs, and every LoadUser / LoadUsers made while serving it
\* uses that registry; a request that CORS aborts (OPTIONS) gets no registry
\* and runs no handler; the router of cmd/api/main.go attaches none.
C19_RegistryBeforeHandlers ==
    /\ \A r \in DOMAIN reqState :
          /\ (router = "unnamed/part_001" /\ reqState[r] \in {"serving", "done"})
             => /\ ctxLoaders[r] # NoLoaders
                /\ \A r2 \in DOMAIN reqState : r2 # r => ctxLoaders[r2] # ctxLoaders[r]
          /\ (router # "unnamed/part_001" \/ reqState[r] \in {"routed", "new", "aborted"})
             => ctxLoaders[r] = NoLoaders
          /\ method[r] = "OPTIONS" => reqState[r] \in {"routed", "aborted"}
    /\ created = Cardinality({r \in DOMAIN reqState : ctxLoaders[r] # NoLoaders})
    /\ \A c \in DOMAIN calls :
          calls[c].state # "idle"
          => /\ reqState[plan[c].req] \in {"serving", "done"}
             /\ calls[c].ctx # NoLoaders
             /\ calls[c].ctx = ctxLoaders[plan[c].req]

\* C19 witness: two requests were served by unnamed/part_001, each with its
\* own registry, and a LoadUser and a LoadUsers each returned from the
\* registry of its request.
C19_Witness ==
    /\ router = "unnamed/part_001"
    /\ \A r \in DOMAIN reqState : reqState[r] = "serving" /\ ctxLoaders[r] # NoLoaders
    /\ \E c1, c2 \in DOMAIN calls :
          /\ Returned(c1) /\ Returned(c2)
          /\ plan[c1].req # plan[c2].req
          /\ calls[c1].ctx = ctxLoaders[plan[c1].req]
          /\ calls[c2].ctx = ctxLoaders[plan[c2].req]
          /\ calls[c1].ctx # calls[c2].ctx

\* C20: once every GetByID, Update and Delete on an entity has returned, the
\* cache entry of the entity (user:id, post:id) is absent or equal to the
\* row committed in the database.
C20_CacheConsistent ==
    (\A p \in DOMAIN ops : ops[p].pc = "returned")
    => \A k \in CacheKeys : redisVal[k] = NoEntry \/ redisVal[k] = dbRow[k]

\* the requests of client ip, and those on the routes behind authLimiter
EdgeOf(ip) == {q \in DOMAIN edge : edge[q].ip = ip}
AuthOf(ip) == {q \in EdgeOf(ip) : edge[q].route \in AuthRoutes}
\* the requests whose handler ran
Handled(q) == \E i \in DOMAIN edge[q].trail : edge[q].trail[i].at = "handler"

\* C21: within one period, the first AuthLimit requests of an IP to /register
\* or /login reach the handler whatever the IP requested on other routes, as
\* long as the IP is under the global limit, and every further one is aborted
\* with 429: an IP with at most AuthLimit such requests among at most
\* GlobalLimit requests has none of them answered 429, and never more than
\* AuthLimit of them reach the handler.
C21_StrictLimitPerRoute ==
    \A ip \in Clients :
        /\ (Cardinality(EdgeOf(ip)) <= GlobalLimit /\ Cardinality(AuthOf(ip)) <= AuthLimit)
              => \A q \in AuthOf(ip) : edge[q].status # 429
        /\ Cardinality({q \in AuthOf(ip) : Handled(q)}) <= AuthLimit

FailedOpen(e) == e.out \in {"no store", "error"}

\* C22: the rate limiter fails open.  A limiter that has no store, or whose
\* read of the counter returned an error, does not answer 429 and passes the
\* request to the next handler of the chain, which is entered exactly once.
C22_FailsOpen ==
    \A q \in DOMAIN edge : \A i \in DOMAIN edge[q].trail :
        LET e == edge[q].trail[i]
            next == NextStage(edge[q].route, e.at)
        IN  FailedOpen(e) =>
                /\ i = Len(edge[q].trail) => edge[q].pc = next /\ edge[q].status # 429
                /\ i < Len(edge[q].trail) => edge[q].trail[i + 1].at = next
                /\ Cardinality({j \in DOMAIN edge[q].trail : edge[q].trail[j].at = next}) <= 1
                /\ edge[q].pc = "done" => Handled(q) \/ edge[q].status = 429

\* a request on an auth route reached its handler through authLimiter, which
\* could not read a counter that is over AuthLimit
C22_Witness ==
    \E q \in DOMAIN edge :
        /\ edge[q].pc = "done"
        /\ Handled(q)
        /\ hits[StoreKey("auth", edge[q].ip)] > AuthLimit
        /\ \E i \in DOMAIN edge[q].trail :
              edge[q].trail[i].at = "auth" /\ edge[q].trail[i].out = "error"

\* C27: a failure to load an author never fails a post operation.  Once the
\* post repository call succeeded, Create, GetByID, GetByUserID and GetAll
\* return their posts with a nil error whatever LoadUser / LoadUsers
\* returned: one response per post in repository order, carrying an author
\* only if the load of that author returned a user and no error.
C27_AuthorLoadNeverFailsPosts ==
    \A c \in DOMAIN calls :
        Returned(c) =>
            LET res == PostResult(c)
            IN  /\ ~res.panic
                /\ res.err = Nil
                /\ Len(res.responses) = Len(calls[c].ids)
                /\ \A i \in DOMAIN res.responses :
                      /\ res.responses[i].userID = calls[c].ids[i]
                      /\ res.responses[i].author # NilUser =>
                            \E j \in DOMAIN calls[c].vals :
                                /\ calls[c].ids[j] = calls[c].ids[i]
                                /\ calls[c].vals[j] = res.responses[i].author
                                /\ j \in DOMAIN calls[c].errors => calls[c].errors[j] = Nil

\* the GetByID and Delete operations of postService in progress or returned
PostReads == {p \in DOMAIN ops : ops[p].op = "PostGetByID"}
PostDeletes == {p \in DOMAIN ops : ops[p].op = "PostDelete"}
Returns(p) == ops[p].pc # "returned" /\ ops'[p].pc = "returned"

\* C23: postService.Delete(id, userID) deletes a post only for its owner.
\* When the stored post's UserID differs from userID, or the post does not
\* exist, the call returns an error and leaves the row and the cache entry
\* post:id as they are; it returns nil only when the row is deleted and the
\* cache entry removed.
C23_Step ==
    \A p \in PostDeletes :
        /\ (ops[p].pc = "start" /\ ops'[p] # ops[p]
              /\ (dbRow[ops[p].key] = NoRow \/ PostAuthor # ops[p].caller))
           => /\ ops'[p].pc = "returned" /\ ops'[p].err # Nil
              /\ dbRow' = dbRow /\ redisVal' = redisVal
        /\ (Returns(p) /\ ops'[p].err = Nil)
           => /\ PostAuthor = ops[p].caller
              /\ ops'[p].deleted /\ ops'[p].invalidated
              /\ dbRow'[ops[p].key] = NoRow /\ redisVal'[ops[p].key] = NoEntry

C23_DeleteOnlyByOwner == [][C23_Step]_vars

\* user 2 asked to delete the cached post of user 1 and was refused
C23_Witness ==
    \E p \in PostDeletes :
        /\ ops[p].pc = "returned"
        /\ ops[p].caller # PostAuthor /\ ops[p].err = ErrUnauthorized
        /\ Decodable(redisVal[ops[p].key]) /\ dbRow[ops[p].key] # NoRow

\* C24: cache-aside read of a post.  On a hit with a decodable entry GetByID
\* returns the cached response without querying the repository; on a miss it
\* queries the repository; when the query fails it returns the error and
\* writes no cache entry; when it succeeds it sets post:id to the response it
\* returns (the entry is that response whenever Redis accepts the Set).
C24_Step ==
    \A p \in PostReads :
        /\ (ops[p].pc = "start" /\ ops'[p] # ops[p]) =>
              IF Decodable(ops'[p].got)
              THEN /\ ops'[p].pc = "returned" /\ ops'[p].err = Nil
                   /\ ops'[p].got = redisVal[ops[p].key]
                   /\ ops'[p].result = Unmarshal(redisVal[ops[p].key])
                   /\ ~ops'[p].queried
                   /\ redisVal' = redisVal
              ELSE ops'[p].pc = "query"
        /\ (ops[p].pc = "query" /\ ops'[p] # ops[p]) =>
              /\ ops'[p].queried
              /\ IF ops'[p].err # Nil
                 THEN ops'[p].pc = "returned" /\ ~ops'[p].wrote /\ redisVal' = redisVal
                 ELSE ops'[p].seen = dbRow[ops[p].key] /\ ops'[p].pc # "returned"
        /\ Returns(p) =>
              /\ ops'[p].err # Nil => ~ops'[p].wrote /\ ops'[p].result = NoResponse
              /\ (ops'[p].err = Nil /\ ops'[p].queried) =>
                    /\ ops'[p].wrote
                    /\ ops'[p].result.post = ops[p].seen
                    /\ IF ops'[p].stored
                       THEN redisVal'[ops[p].key] = Marshal(ops'[p].result)
                       ELSE redisVal' = redisVal

C24_CacheAsideRead == [][C24_Step]_vars

\* one GetByID failed at the repository and wrote nothing, another one was
\* served from the entry a third had stored
C24_Witness ==
    \E p, q \in PostReads :
        /\ ops[p].pc = "returned" /\ ops[p].err = ErrDB /\ ~ops[p].wrote
        /\ ops[q].pc = "returned" /\ Decodable(ops[q].got) /\ ~ops[q].queried
        /\ ops[q].result = Unmarshal(ops[q].got)

\* the author an uncached read of the database sees now
AuthorNow == IF dbRow["user:1"] = NoRow THEN NoAuthor ELSE dbRow["user:1"]

\* C28: the post cache is transparent with respect to author data.  A
\* postService.GetByID that starts after userService.Update(u) or Delete(u)
\* has returned, and whose own author load does not fail, returns the author
\* data an uncached read of the database returns.
C28_AuthorTransparent ==
    \A p \in PostReads :
        (/\ ops[p].pc = "returned" /\ ops[p].late /\ UserWriters # {}
         /\ ops[p].err = Nil /\ ops[p].loadErr = Nil)
        => ops[p].result.author = AuthorNow

\* C29: GetByID caches a post response only when it is complete.  A response
\* built after the author load failed is not stored under post:id, and no
\* GetByID is served from the cache a response without author for a post whose
\* author exists.
C29_OnlyCompleteCached ==
    \A p \in PostReads :
        /\ ops[p].loadErr # Nil => ~ops[p].stored
        /\ (ops[p].pc = "returned" /\ Decodable(ops[p].got)
              /\ ops[p].result.author = NoAuthor)
           => AuthorNow = NoAuthor

\* the Register calls, and the committed rows a call inserted
Registers == {p \in DOMAIN regs : regs[p].op = "Register"}
RowsBy(p) == {i \in DOMAIN userRows : userRows[i].by = p}

\* C25: the database operations of one service call are atomic.  Inside
\* WithTransaction every repository call is made through the transaction's
\* handle, outside through the default handle; nothing a call wrote is
\* committed while its transaction is open or after it returned an error; and
\* Register with an email that is already registered returns an error and
\* creates no user.
C25_AtomicServiceCall ==
    \A p \in DOMAIN regs :
        /\ \A i \in DOMAIN regs[p].uses :
              regs[p].uses[i].handle = IF regs[p].op = "Register" THEN p ELSE DefaultDB
        /\ (regs[p].pc # "returned" \/ regs[p].err # Nil) => RowsBy(p) = {}
        /\ (regs[p].op = "Register" /\ regs[p].pc = "returned" /\ regs[p].taken)
              => regs[p].err # Nil /\ RowsBy(p) = {}

\* a Register whose Create succeeded returned the error of the commit, and
\* another one was refused for a registered email
C25_Witness ==
    \E p, q \in Registers :
        /\ regs[p].pc = "returned" /\ regs[p].inserted /\ regs[p].err = ErrDB
        /\ regs[q].pc = "returned" /\ regs[q].taken /\ regs[q].err = ErrEmailTaken

\* C30: for every interleaving of concurrent Register calls with the same
\* email, at most one call succeeds and at most one user with that email
\* exists; every other call returns an error and leaves no row behind.
C30_OneUserPerEmail ==
    \A e \in Emails :
        LET same == {p \in Registers : regs[p].email = e /\ regs[p].pc = "returned"}
        IN  /\ Cardinality({i \in DOMAIN userRows : userRows[i].email = e}) <= 1
            /\ Cardinality({p \in same : regs[p].err = Nil}) <= 1
            /\ \A p \in same :
                  IF regs[p].err = Nil THEN Cardinality(RowsBy(p)) = 1 ELSE RowsBy(p) = {}

\* two Register calls with the same email both found the email free; one
\* committed its user, the other got the error of the unique index
C30_Witness ==
    \E p, q \in Registers :
        /\ p # q /\ regs[p].email = regs[q].email
        /\ regs[p].passed /\ regs[q].passed
        /\ regs[p].pc = "returned" /\ regs[p].err = Nil
        /\ regs[q].pc = "returned" /\ regs[q].err = ErrDuplicate

\* the header has the form "Bearer <token>" with a valid HMAC-signed token
ValidBearer(header) ==
    /\ Len(header) = 2 /\ header[1] = "Bearer"
    /\ ~header[2].malformed /\ header[2].alg = "HS256"
    /\ header[2].signed /\ ~header[2].expired

\* C26: JWTAuth lets a request reach the protected handler only when its
\* Authorization header is "Bearer <token>" with a valid HMAC-signed token; in
\* every other case the request is aborted with 401 and the handler does not
\* run; and user_id, email and role are set on the context exactly when the
\* request is let through.
C26_OnlyValidTokensPass ==
    \A q \in DOMAIN auth :
        LET through == auth[q].pc \in {"handler", "done"}
        IN  /\ through => ValidBearer(auth[q].header)
            /\ (auth[q].pc # "jwt" /\ ~ValidBearer(auth[q].header))
                  => auth[q].pc = "aborted" /\ auth[q].status = 401
            /\ auth[q].pc # "jwt"
                  => \A i \in DOMAIN ClaimKeys : ClaimKeys[i] \in auth[q].keys <=> through

====
